---------------------------- MODULE Spec2Model ----------------------------
(***************************************************************************)
(* smart-voca: the spaced-repetition mastery tracker (StatisticsModel),    *)
(* the learning sessions and history (LearningModel, LearningController),  *)
(* the exam engine (ExamController / ExamModel) with its wrong-note        *)
(* ledger, the exam view that drives it (ExamView), the word list          *)
(* (WordModel) and the queries that select words from these tables.        *)
(*                                                                         *)
(* The persistent store is SQLite.  Every table is a set of rows; a row    *)
(* is a record whose fields are the columns the code writes.  Timestamps   *)
(* are the strings the code formats with strftime; a timestamp is modelled *)
(* as [day, tod]: the calendar day and the time of day, tod = 0 being      *)
(* "00:00:00".  String comparison of two such timestamps is the            *)
(* lexicographic order on (day, tod).                                      *)
(*                                                                         *)
(* Columns the program writes and no operation modelled here reads are     *)
(* left out of the rows: word_statistics.last_review,                      *)
(* exam_history.exam_date, exam_type and duration_sec, and the texts of    *)
(* exam_questions.                                                         *)
(***************************************************************************)
EXTENDS Integers, Sequences, FiniteSets, TLC

(***************************************************************************)
(* Bounds of the model.                                                    *)
(***************************************************************************)
NumWords == 2          \* word ids 1..NumWords
MaxClock == 2          \* the clock runs up to the instant MaxClock
TicksPerDay == 2       \* instants per calendar day; the first one is midnight
MaxCalls == 6          \* successful update_statistics calls in one behaviour
MaxSubmitted == 2      \* questions handed to record_exam_result in one behaviour
MaxDay == 2            \* the due-word query runs on one of the days 0..MaxDay
MaxAnswers == 6        \* answers to one word behind a mastery record that Init draws
MaxWrong == 2          \* wrong answers to one word behind a wrong-note entry that Init draws
MaxCsvRows == 2        \* rows of an imported CSV file
MaxEvents == 2         \* record_word_result calls in one behaviour
MaxSessions == 2       \* rows of learning_sessions
NumCallers == 2        \* update_statistics calls that run side by side

WordIds == 1..NumWords

VARIABLES
    now,              \* the clock: instants since day 0, 00:00:00
    word_statistics,  \* table word_statistics
    lastOutcome,      \* how the last update_statistics call ended
    attempts,         \* per word: update_statistics calls that returned True
    corrects,         \* per word: those of them with is_correct
    exam_history,     \* table exam_history
    exam_questions,   \* table exam_questions
    wrong_note,       \* table wrong_note
    lastExam,         \* the last submit_and_record_exam call: arguments, faults, return
    view,             \* ExamView: the exam in progress and its timer
    words,            \* table words
    result,           \* the last query: its arguments and what it returned
    streak,           \* per word: the calls that returned True since the last
                      \* of them with not is_correct, all of them with is_correct
    reviewed,         \* per word: <<day>> of the last call that returned True
    learning_sessions,\* table learning_sessions
    learning_history, \* table learning_history
    lastEvent,        \* the last session or history call: arguments and return
    callers           \* the update_statistics calls in progress side by side

masteryVars == <<word_statistics, lastOutcome, attempts, corrects, streak, reviewed>>
examVars == <<exam_history, exam_questions, wrong_note, lastExam>>
wordVars == <<words, result>>
learningVars == <<learning_sessions, learning_history, lastEvent, callers>>
vars == <<now, word_statistics, lastOutcome, attempts, corrects,
          exam_history, exam_questions, wrong_note, lastExam, view, words, result,
          streak, reviewed, learning_sessions, learning_history, lastEvent, callers>>

(***************************************************************************)
(* Clock and timestamps.                                                   *)
(***************************************************************************)
Stamp(d, t) == [day |-> d, tod |-> t]

\* datetime.now()
DatetimeNow == Stamp(now \div TicksPerDay, now % TicksPerDay)

\* strftime('%Y-%m-%d %H:%M:%S')
FormatFull(t) == Stamp(t.day, t.tod)

\* strftime('%Y-%m-%d 00:00:00')
FormatMidnight(t) == Stamp(t.day, 0)

\* t + timedelta(days=n)
AddDays(t, n) == Stamp(t.day + n, t.tod)

\* string comparison a <= b of two formatted timestamps
StampLeq(a, b) == a.day < b.day \/ (a.day = b.day /\ a.tod <= b.tod)

(***************************************************************************)
(* The store primitives.                                                   *)
(***************************************************************************)
MaxOf(S) == CHOOSE m \in S : \A x \in S : x <= m

\* cursor.lastrowid of an INSERT into a table whose INTEGER PRIMARY KEY is pk
NextRowId(table, pk) == IF table = {} THEN 1 ELSE MaxOf({r[pk] : r \in table}) + 1

(***************************************************************************)
(* Mastery tracker: models/statistics_model.py                             *)
(***************************************************************************)
MAX_MASTERY_LEVEL == 5

SRS_INTERVALS == (0 :> 1) @@ (1 :> 3) @@ (2 :> 7) @@ (3 :> 14) @@ (4 :> 30) @@ (5 :> 365)

\* SRS_INTERVALS.get(level, 1)
SrsIntervalGet(level) == IF level \in DOMAIN SRS_INTERVALS THEN SRS_INTERVALS[level] ELSE 1

Min(a, b) == IF a <= b THEN a ELSE b

\* Variants of _calculate_next_review, each with one slip.
calculate_next_review_decrement(current_level, is_correct, t) ==
    LET new_level == IF is_correct THEN Min(current_level + 1, MAX_MASTERY_LEVEL)
                     ELSE IF current_level > 0 THEN current_level - 1 ELSE 0
    IN  [new_level |-> new_level,
         next_review_date |-> FormatMidnight(AddDays(t, SrsIntervalGet(new_level)))]

calculate_next_review_uncapped(current_level, is_correct, t) ==
    LET new_level == IF is_correct THEN current_level + 1 ELSE 0
    IN  [new_level |-> new_level,
         next_review_date |-> FormatMidnight(AddDays(t, SrsIntervalGet(new_level)))]

calculate_next_review_prior_interval(current_level, is_correct, t) ==
    LET new_level == IF is_correct THEN Min(current_level + 1, MAX_MASTERY_LEVEL) ELSE 0
    IN  [new_level |-> new_level,
         next_review_date |-> FormatMidnight(AddDays(t, SrsIntervalGet(current_level)))]

calculate_next_review_keep_time(current_level, is_correct, t) ==
    LET new_level == IF is_correct THEN Min(current_level + 1, MAX_MASTERY_LEVEL) ELSE 0
    IN  [new_level |-> new_level,
         next_review_date |-> FormatFull(AddDays(t, SrsIntervalGet(new_level)))]

\* StatisticsModel._calculate_next_review; t is the datetime.now() it reads
calculate_next_review(current_level, is_correct, t) ==
    LET new_level == IF is_correct THEN Min(current_level + 1, MAX_MASTERY_LEVEL) ELSE 0
        interval == SrsIntervalGet(new_level)
    IN  [new_level |-> new_level,
         next_review_date |-> FormatMidnight(AddDays(t, interval))]

\* The UNIQUE constraint on word_statistics.word_id (database/schema.sql), which
\* update_statistics relies on: "word_id는 UNIQUE 제약 조건으로 인해 1개만 존재".
StatsUniqueOk(table, word_id) == \A r \in table : r.word_id # word_id

\* BaseModel.select_all(where_clause="word_id = ?"): the rows, in rowid order;
\* a failed SELECT gives the empty list.
SelectStatsByWord(table, word_id, lookupFails) ==
    IF lookupFails THEN {} ELSE {r \in table : r.word_id = word_id}

\* current_stats[0]
FirstStats(rows) == CHOOSE r \in rows : \A o \in rows : r.stats_id <= o.stats_id

\* Variant of update_statistics: the update branch keeps the stored counters.
update_statistics_stale_counts(table, word_id, is_correct, t, lookupFails, writeFails) ==
    LET current_stats == SelectStatsByWord(table, word_id, lookupFails)
    IN  IF current_stats = {}
        THEN LET nr == calculate_next_review(0, is_correct, t)
                 row == [stats_id |-> NextRowId(table, "stats_id"),
                         word_id |-> word_id,
                         total_attempts |-> 1,
                         correct_count |-> IF is_correct THEN 1 ELSE 0,
                         next_review |-> nr.next_review_date,
                         mastery_level |-> nr.new_level]
             IN  IF writeFails \/ ~StatsUniqueOk(table, word_id)
                 THEN [table |-> table, ret |-> FALSE]
                 ELSE [table |-> table \cup {row}, ret |-> TRUE]
        ELSE LET stats == FirstStats(current_stats)
                 nr == calculate_next_review(stats.mastery_level, is_correct, t)
                 row == [stats EXCEPT !.next_review = nr.next_review_date,
                                      !.mastery_level = nr.new_level]
             IN  IF writeFails
                 THEN [table |-> table, ret |-> FALSE]
                 ELSE [table |-> (table \ {stats}) \cup {row}, ret |-> TRUE]

\* Variant of write_statistics: the write starts from the rows the table holds
\* when it runs, not from the rows that were looked up.
write_statistics_fresh(table, word_id, is_correct, t, current_stats, writeFails) ==
    LET fresh == {r \in table : r.word_id = word_id}
    IN  IF fresh = {}
        THEN LET nr == calculate_next_review(0, is_correct, t)
                 row == [stats_id |-> NextRowId(table, "stats_id"),
                         word_id |-> word_id,
                         total_attempts |-> 1,
                         correct_count |-> IF is_correct THEN 1 ELSE 0,
                         next_review |-> nr.next_review_date,
                         mastery_level |-> nr.new_level]
             IN  IF writeFails THEN [table |-> table, ret |-> FALSE]
                 ELSE [table |-> table \cup {row}, ret |-> TRUE]
        ELSE LET stats == FirstStats(fresh)
                 nr == calculate_next_review(stats.mastery_level, is_correct, t)
                 row == [stats EXCEPT !.total_attempts = stats.total_attempts + 1,
                                      !.correct_count = stats.correct_count
                                                        + (IF is_correct THEN 1 ELSE 0),
                                      !.next_review = nr.next_review_date,
                                      !.mastery_level = nr.new_level]
             IN  IF writeFails THEN [table |-> table, ret |-> FALSE]
                 ELSE [table |-> (table \ {stats}) \cup {row}, ret |-> TRUE]

\* StatisticsModel.update_statistics from the branch on current_stats on, with
\* BaseModel.insert / BaseModel.update: the table after the call and the value
\* returned.  The UPDATE is by stats_id and writes the columns computed from
\* the row that was looked up.
write_statistics(table, word_id, is_correct, t, current_stats, writeFails) ==
    IF current_stats = {}
    THEN LET nr == calculate_next_review(0, is_correct, t)
             row == [stats_id |-> NextRowId(table, "stats_id"),
                     word_id |-> word_id,
                     total_attempts |-> 1,
                     correct_count |-> IF is_correct THEN 1 ELSE 0,
                     next_review |-> nr.next_review_date,
                     mastery_level |-> nr.new_level]
         IN  IF writeFails \/ ~StatsUniqueOk(table, word_id)
             THEN [table |-> table, ret |-> FALSE]
             ELSE [table |-> table \cup {row}, ret |-> TRUE]
    ELSE LET stats == FirstStats(current_stats)
             nr == calculate_next_review(stats.mastery_level, is_correct, t)
             stored == {r \in table : r.stats_id = stats.stats_id}
             rows == {[r EXCEPT !.total_attempts = stats.total_attempts + 1,
                                !.correct_count = stats.correct_count
                                                  + (IF is_correct THEN 1 ELSE 0),
                                !.next_review = nr.next_review_date,
                                !.mastery_level = nr.new_level] : r \in stored}
         IN  IF writeFails \/ stored = {}
             THEN [table |-> table, ret |-> FALSE]
             ELSE [table |-> (table \ stored) \cup rows, ret |-> TRUE]

\* StatisticsModel.update_statistics: the lookup and the write, one after the
\* other.
update_statistics(table, word_id, is_correct, t, lookupFails, writeFails) ==
    write_statistics(table, word_id, is_correct, t,
                     SelectStatsByWord(table, word_id, lookupFails), writeFails)

StatsOf(w) == {r \in word_statistics : r.word_id = w}

\* The stored level of a word, 0 when it has no record.
LevelOf(w) == IF StatsOf(w) = {} THEN 0 ELSE FirstStats(StatsOf(w)).mastery_level

InitMasteryVars ==
    /\ word_statistics = {}
    /\ lastOutcome = "none"
    /\ attempts = [w \in WordIds |-> 0]
    /\ corrects = [w \in WordIds |-> 0]
    /\ streak = [w \in WordIds |-> 0]
    /\ reviewed = [w \in WordIds |-> <<>>]

RECURSIVE SumOver(_, _)
SumOver(f, S) == IF S = {} THEN 0
                 ELSE LET x == CHOOSE y \in S : TRUE IN f[x] + SumOver(f, S \ {x})

\* What a call of update_statistics for word w that returned ret adds to the
\* counters of the calls.
Counted(w, is_correct, ret) ==
    /\ attempts' = [attempts EXCEPT ![w] = @ + (IF ret THEN 1 ELSE 0)]
    /\ corrects' = [corrects EXCEPT ![w] = @ + (IF ret /\ is_correct THEN 1 ELSE 0)]
    /\ streak' = [streak EXCEPT ![w] = IF ~ret THEN @ ELSE IF is_correct THEN @ + 1 ELSE 0]
    /\ reviewed' = [reviewed EXCEPT ![w] = IF ret THEN <<DatetimeNow.day>> ELSE @]

\* recordOutcome: one call of update_statistics.  attempts and corrects count
\* the calls that returned True; lastOutcome is "ok" for such a call,
\* "insert_refused" when the lookup failed for a word that has a record, so that
\* the insert branch ran into the UNIQUE constraint, and "write_failed" when the
\* INSERT, the UPDATE or its commit failed.
RecordOutcome(w, is_correct, lookupFails, writeFails) ==
    /\ SumOver(attempts, WordIds) < MaxCalls
    /\ \E out \in {update_statistics(word_statistics, w, is_correct, DatetimeNow,
                                        lookupFails, writeFails)} :
           /\ word_statistics' = out.table
           /\ lastOutcome' = IF out.ret THEN "ok"
                              ELSE IF lookupFails /\ ~writeFails THEN "insert_refused"
                              ELSE "write_failed"
           /\ Counted(w, is_correct, out.ret)
    /\ UNCHANGED <<now, examVars, view, wordVars, learningVars>>

\* The clock advances by one instant.
Tick ==
    /\ now < MaxClock
    /\ now' = now + 1
    /\ UNCHANGED <<masteryVars, examVars, view, wordVars, learningVars>>

(***************************************************************************)
(* Learning sessions and learning history: models/learning_model.py,       *)
(* controllers/learning_controller.py                                      *)
(*                                                                         *)
(* A column that may be NULL holds a sequence: <<>> is NULL, <<v>> the     *)
(* value v.  start_session names neither end_time nor the two counts in    *)
(* its INSERT, so they are NULL in the new row.  session_type,             *)
(* session_mode and response_time are stored and never read.  No statement *)
(* of the program turns on SQLite's foreign keys, so no insert is refused  *)
(* for the session or the word it names.  A value of -1 stands for None.   *)
(***************************************************************************)
\* LearningController.start_session with LearningModel.start_session and
\* BaseModel.insert: the table after the call and the new session_id
start_session(table, total_words, t, writeFails) ==
    IF total_words = 0 \/ writeFails THEN [table |-> table, ret |-> -1]
    ELSE LET session_id == NextRowId(table, "session_id")
         IN  [table |-> table \cup {[session_id |-> session_id,
                                     start_time |-> FormatFull(t),
                                     end_time |-> <<>>,
                                     total_words |-> total_words,
                                     correct_count |-> <<>>,
                                     wrong_count |-> <<>>,
                                     is_completed |-> 0]},
              ret |-> session_id]

\* Variant of end_session: a session that is completed is left as it is.
end_session_once(table, session_id, correct_count, wrong_count, t, writeFails) ==
    LET rows == {S \in table : S.session_id = session_id /\ S.is_completed = 0}
    IN  IF writeFails \/ rows = {} THEN [table |-> table, ret |-> FALSE]
        ELSE [table |-> (table \ rows)
                          \cup {[S EXCEPT !.end_time = <<FormatFull(t)>>,
                                          !.correct_count = <<correct_count>>,
                                          !.wrong_count = <<wrong_count>>,
                                          !.is_completed = 1] : S \in rows},
              ret |-> TRUE]

\* LearningModel.end_session with BaseModel.update: True when a row was updated
end_session(table, session_id, correct_count, wrong_count, t, writeFails) ==
    LET rows == {S \in table : S.session_id = session_id}
    IN  IF writeFails \/ rows = {} THEN [table |-> table, ret |-> FALSE]
        ELSE [table |-> (table \ rows)
                          \cup {[S EXCEPT !.end_time = <<FormatFull(t)>>,
                                          !.correct_count = <<correct_count>>,
                                          !.wrong_count = <<wrong_count>>,
                                          !.is_completed = 1] : S \in rows},
              ret |-> TRUE]

\* LearningModel.add_history with BaseModel.insert: the new history_id
add_history(table, session_id, word_id, is_correct, t, writeFails) ==
    IF writeFails THEN [table |-> table, ret |-> -1]
    ELSE LET history_id == NextRowId(table, "history_id")
         IN  [table |-> table \cup {[history_id |-> history_id,
                                     session_id |-> session_id,
                                     word_id |-> word_id,
                                     is_correct |-> IF is_correct THEN 1 ELSE 0,
                                     learning_date |-> FormatFull(t)]},
              ret |-> history_id]

\* Variant of record_word_result: it returns when the history row is not written.
record_word_result_stop_early(history, stats, session_id, word_id, is_correct, t, historyFails, lookupFails, writeFails) ==
    LET h == add_history(history, session_id, word_id, is_correct, t, historyFails)
        history_success == h.ret # -1
        s == IF history_success
             THEN update_statistics(stats, word_id, is_correct, t, lookupFails, writeFails)
             ELSE [table |-> stats, ret |-> FALSE]
        stats_success == s.ret
    IN  [history |-> h.table, stats |-> s.table,
         history_success |-> history_success, stats_success |-> stats_success,
         ret |-> history_success /\ stats_success]

\* LearningController.record_word_result: recordEvent.  Both tables after the
\* call, what each of the two writes returned, and the value returned.
record_word_result(history, stats, session_id, word_id, is_correct, t, historyFails, lookupFails, writeFails) ==
    LET h == add_history(history, session_id, word_id, is_correct, t, historyFails)
        history_success == h.ret # -1
        s == update_statistics(stats, word_id, is_correct, t, lookupFails, writeFails)
        stats_success == s.ret
    IN  [history |-> h.table, stats |-> s.table,
         history_success |-> history_success, stats_success |-> stats_success,
         ret |-> history_success /\ stats_success]

\* What a session or history call leaves in lastEvent: its arguments, the
\* statements of it that failed, what its writes returned, the number of record_word_result calls so far, and whether
\* each of them so far has had both of its writes succeed.
Event(op, session_id, word_id, is_correct, faults, history_success, stats_success, ret, id, calls, clean) ==
    [op |-> op, session_id |-> session_id, word_id |-> word_id, is_correct |-> is_correct,
     faults |-> faults, history_success |-> history_success, stats_success |-> stats_success,
     ret |-> ret, id |-> id, calls |-> calls, clean |-> clean]

NoEvent == Event("none", 0, 0, FALSE, {}, FALSE, FALSE, FALSE, 0, 0, TRUE)

\* A caller of update_statistics that has not called yet
Callers == 1..NumCallers

Idle == [pc |-> "idle", word_id |-> 0, is_correct |-> FALSE, current_stats |-> {},
         ret |-> FALSE]

InitLearningVars ==
    /\ learning_sessions = {}
    /\ learning_history = {}
    /\ lastEvent = NoEvent
    /\ callers = [c \in Callers |-> Idle]

\* startSession on a word list of total_words words
StartSession(total_words, writeFails) ==
    /\ Cardinality(learning_sessions) < MaxSessions
    /\ \E out \in {start_session(learning_sessions, total_words, DatetimeNow, writeFails)} :
          /\ learning_sessions' = out.table
          /\ lastEvent' = Event("start_session", 0, 0, FALSE,
                                IF writeFails THEN {"write"} ELSE {}, FALSE, FALSE, out.ret # -1,
                                out.ret, lastEvent.calls, lastEvent.clean)
    /\ UNCHANGED <<now, masteryVars, examVars, view, wordVars, learning_history, callers>>

\* endSession
EndSession(session_id, correct_count, wrong_count, writeFails) ==
    /\ \E out \in {end_session(learning_sessions, session_id, correct_count, wrong_count,
                               DatetimeNow, writeFails)} :
          /\ learning_sessions' = out.table
          /\ lastEvent' = Event("end_session", session_id, 0, FALSE,
                                IF writeFails THEN {"write"} ELSE {}, FALSE, FALSE, out.ret,
                                0, lastEvent.calls, lastEvent.clean)
    /\ UNCHANGED <<now, masteryVars, examVars, view, wordVars, learning_history, callers>>

\* recordEvent
RecordEvent(session_id, w, is_correct, historyFails, lookupFails, writeFails) ==
    /\ lastEvent.calls < MaxEvents
    /\ \E out \in {record_word_result(learning_history, word_statistics, session_id, w,
                                      is_correct, DatetimeNow, historyFails, lookupFails,
                                      writeFails)} :
          /\ learning_history' = out.history
          /\ word_statistics' = out.stats
          /\ lastOutcome' = IF out.stats_success THEN "ok"
                            ELSE IF lookupFails /\ ~writeFails THEN "insert_refused"
                            ELSE "write_failed"
          /\ Counted(w, is_correct, out.stats_success)
          /\ lastEvent' = Event("record_word_result", session_id, w, is_correct,
                                (IF historyFails THEN {"history"} ELSE {})
                                    \cup (IF lookupFails THEN {"lookup"} ELSE {})
                                    \cup (IF writeFails THEN {"write"} ELSE {}),
                                out.history_success, out.stats_success, out.ret, 0,
                                lastEvent.calls + 1, lastEvent.clean /\ out.ret)
    /\ UNCHANGED <<now, examVars, view, wordVars, learning_sessions, callers>>

\* One caller of update_statistics runs its SELECT.
Lookup(c, w, is_correct) ==
    /\ callers[c].pc = "idle"
    /\ callers' = [callers EXCEPT
                      ![c] = [pc |-> "looked", word_id |-> w, is_correct |-> is_correct,
                              current_stats |-> SelectStatsByWord(word_statistics, w, FALSE),
                              ret |-> FALSE]]
    /\ UNCHANGED <<now, masteryVars, examVars, view, wordVars, learning_sessions,
                   learning_history, lastEvent>>

\* The caller goes on to its INSERT or its UPDATE with the rows it has looked up.
Write(c) ==
    /\ callers[c].pc = "looked"
    /\ \E out \in {write_statistics(word_statistics, callers[c].word_id,
                                    callers[c].is_correct, DatetimeNow,
                                    callers[c].current_stats, FALSE)} :
          /\ word_statistics' = out.table
          /\ lastOutcome' = IF out.ret THEN "ok" ELSE "insert_refused"
          /\ Counted(callers[c].word_id, callers[c].is_correct, out.ret)
          /\ callers' = [callers EXCEPT ![c].pc = "done", ![c].ret = out.ret]
    /\ UNCHANGED <<now, examVars, view, wordVars, learning_sessions, learning_history,
                   lastEvent>>

(***************************************************************************)
(* Exam engine: controllers/exam_controller.py, models/exam_model.py,      *)
(* database/db_connection.py                                               *)
(*                                                                         *)
(* A question is the dict [word_id, is_correct, exam_id]; exam_id = 0 says  *)
(* that the dict has no such key yet.  The texts it also carries           *)
(* (word_text, correct_answer, user_answer, question_type) are stored and  *)
(* never read.  A fault names one statement of record_exam_result that     *)
(* raises sqlite3.Error: [step, idx], idx the question's position.         *)
(***************************************************************************)
Question(w, c) == [word_id |-> w, is_correct |-> c, exam_id |-> 0]

\* Variant of Tagged: a dict that already has an exam_id keeps it (setdefault).
Tagged_keep_first(q, exam_id) == IF q.exam_id # 0 THEN q ELSE [q EXCEPT !.exam_id = exam_id]

\* q['exam_id'] = exam_id: the caller's dict is written to.
Tagged(q, exam_id) == [q EXCEPT !.exam_id = exam_id]

\* The caller's list after the loop over questions_detail has run.
TagAll(questions, exam_id) == [i \in 1..Len(questions) |-> Tagged(questions[i], exam_id)]

Fault(step, i) == [step |-> step, idx |-> i]

\* The statements of one call that can fail.
FaultPoints(questions) ==
    {Fault("connect", 0), Fault("history", 0), Fault("commit", 0)}
    \cup {Fault("question", i) : i \in 1..Len(questions)}
    \cup {Fault(s, i) : s \in {"lookup", "note"},
                        i \in {j \in 1..Len(questions) : questions[j].is_correct = 0}}

\* No statement fails, or exactly one does.  An empty submission is turned
\* away before any statement runs.
FaultChoices(questions) ==
    IF questions = <<>> THEN {{}} ELSE {{}} \cup {{f} : f \in FaultPoints(questions)}

Tables(h, q, n) == [history |-> h, questions |-> q, notes |-> n]

\* The connection inside record_exam_result: the tables it sees, whether the
\* explicit BEGIN is still open, and the tables as of BEGIN.
Connection(tables) == [tables |-> tables, inTxn |-> TRUE, saved |-> tables]

\* DBConnection.execute, except branch: self._conn.rollback().  With
\* isolation_level = None no transaction is opened again: every later statement
\* commits on its own.
Rollback(conn) ==
    IF conn.inTxn THEN [tables |-> conn.saved, inTxn |-> FALSE, saved |-> conn.saved]
    ELSE conn

\* The UNIQUE constraint on wrong_note.word_id (database/schema.sql).
NoteUniqueOk(notes, word_id) == \A r \in notes : r.word_id # word_id

FirstNote(rows) == CHOOSE r \in rows : \A o \in rows : r.note_id <= o.note_id

\* Variant of _update_wrong_note: an existing entry is overwritten, not incremented.
update_wrong_note_reset(conn, word_id, latest_exam_id, t, i, faults) ==
    LET lookupFails == Fault("lookup", i) \in faults
        c1 == IF lookupFails THEN Rollback(conn) ELSE conn
        rows == IF lookupFails THEN {}
                ELSE {r \in conn.tables.notes : r.word_id = word_id}
    IN  IF rows # {}
        THEN LET row == FirstNote(rows)
                 upd == [row EXCEPT !.wrong_count = 1,
                                    !.latest_exam_id = latest_exam_id,
                                    !.last_wrong_date = FormatFull(t)]
             IN  IF Fault("note", i) \in faults THEN Rollback(c1)
                 ELSE [c1 EXCEPT !.tables.notes = (@ \ {row}) \cup {upd}]
        ELSE LET ins == [note_id |-> NextRowId(c1.tables.notes, "note_id"),
                         word_id |-> word_id,
                         latest_exam_id |-> latest_exam_id,
                         wrong_count |-> 1,
                         last_wrong_date |-> FormatFull(t)]
             IN  IF Fault("note", i) \in faults \/ ~NoteUniqueOk(c1.tables.notes, word_id)
                 THEN Rollback(c1)
                 ELSE [c1 EXCEPT !.tables.notes = @ \cup {ins}]

\* Variant of _update_wrong_note: a new entry starts at wrong_count 0.
update_wrong_note_from_zero(conn, word_id, latest_exam_id, t, i, faults) ==
    LET lookupFails == Fault("lookup", i) \in faults
        c1 == IF lookupFails THEN Rollback(conn) ELSE conn
        rows == IF lookupFails THEN {}
                ELSE {r \in conn.tables.notes : r.word_id = word_id}
    IN  IF rows # {}
        THEN LET row == FirstNote(rows)
                 upd == [row EXCEPT !.wrong_count = row.wrong_count + 1,
                                    !.latest_exam_id = latest_exam_id,
                                    !.last_wrong_date = FormatFull(t)]
             IN  IF Fault("note", i) \in faults THEN Rollback(c1)
                 ELSE [c1 EXCEPT !.tables.notes = (@ \ {row}) \cup {upd}]
        ELSE LET ins == [note_id |-> NextRowId(c1.tables.notes, "note_id"),
                         word_id |-> word_id,
                         latest_exam_id |-> latest_exam_id,
                         wrong_count |-> 0,
                         last_wrong_date |-> FormatFull(t)]
             IN  IF Fault("note", i) \in faults \/ ~NoteUniqueOk(c1.tables.notes, word_id)
                 THEN Rollback(c1)
                 ELSE [c1 EXCEPT !.tables.notes = @ \cup {ins}]

\* ExamModel._update_wrong_note for question i: the connection after it.
\* fetchone returns None when the SELECT fails, so the insert branch is taken.
update_wrong_note(conn, word_id, latest_exam_id, t, i, faults) ==
    LET lookupFails == Fault("lookup", i) \in faults
        c1 == IF lookupFails THEN Rollback(conn) ELSE conn
        rows == IF lookupFails THEN {}
                ELSE {r \in conn.tables.notes : r.word_id = word_id}
    IN  IF rows # {}
        THEN LET row == FirstNote(rows)
                 upd == [row EXCEPT !.wrong_count = row.wrong_count + 1,
                                    !.latest_exam_id = latest_exam_id,
                                    !.last_wrong_date = FormatFull(t)]
             IN  IF Fault("note", i) \in faults THEN Rollback(c1)
                 ELSE [c1 EXCEPT !.tables.notes = (@ \ {row}) \cup {upd}]
        ELSE LET ins == [note_id |-> NextRowId(c1.tables.notes, "note_id"),
                         word_id |-> word_id,
                         latest_exam_id |-> latest_exam_id,
                         wrong_count |-> 1,
                         last_wrong_date |-> FormatFull(t)]
             IN  IF Fault("note", i) \in faults \/ ~NoteUniqueOk(c1.tables.notes, word_id)
                 THEN Rollback(c1)
                 ELSE [c1 EXCEPT !.tables.notes = @ \cup {ins}]

\* record_exam_result, the loop over questions_detail from question i on.
\* self.db.execute returns None on a failed INSERT and the loop goes on.
RECURSIVE record_questions(_, _, _, _, _, _)
record_questions(conn, questions, i, exam_id, t, faults) ==
    IF i > Len(questions) THEN conn
    ELSE LET q == Tagged(questions[i], exam_id)
             row == [question_id |-> NextRowId(conn.tables.questions, "question_id"),
                     exam_id |-> q.exam_id,
                     word_id |-> q.word_id,
                     is_correct |-> q.is_correct]
             c1 == IF Fault("question", i) \in faults THEN Rollback(conn)
                   ELSE [conn EXCEPT !.tables.questions = @ \cup {row}]
             c2 == IF q.is_correct = 0
                   THEN update_wrong_note(c1, q.word_id, exam_id, t, i, faults)
                   ELSE c1
         IN  record_questions(c2, questions, i + 1, exam_id, t, faults)

\* ExamModel.record_exam_result: the tables after the call, the exam id
\* returned, 0 standing for None, and the caller's list after the call.
record_exam_result(tables, total_questions, score, questions, t, faults) ==
    IF Fault("connect", 0) \in faults
    THEN [tables |-> tables, exam_id |-> 0, questions |-> questions]
    ELSE
    LET conn == Connection(tables)
        exam_id == NextRowId(tables.history, "exam_id")
        history == [exam_id |-> exam_id,
                    total_questions |-> total_questions,
                    score |-> score,
                    is_deleted |-> 0]
    IN  IF Fault("history", 0) \in faults
        THEN \* cursor is None: cursor.lastrowid raises, the except branch returns None
             [tables |-> Rollback(conn).tables, exam_id |-> 0, questions |-> questions]
        ELSE LET c1 == [conn EXCEPT !.tables.history = @ \cup {history}]
                 c2 == record_questions(c1, questions, 1, exam_id, t, faults)
                 tagged == TagAll(questions, exam_id)
             IN  IF c2.inTxn /\ Fault("commit", 0) \in faults
                 THEN [tables |-> Rollback(c2).tables, exam_id |-> 0, questions |-> tagged]
                 ELSE \* commit() of a connection with no open transaction does nothing
                      [tables |-> c2.tables, exam_id |-> exam_id, questions |-> tagged]

\* round(correct_count / total_questions * 100, 1), in tenths of a point
ScoreTenths(correct_count, total_questions) ==
    IF total_questions > 0
    THEN LET n == correct_count * 1000
             q == n \div total_questions
             r == n % total_questions
         IN  IF 2 * r < total_questions THEN q
             ELSE IF 2 * r > total_questions THEN q + 1
             ELSE IF q % 2 = 0 THEN q ELSE q + 1
    ELSE 0

CountCorrect(questions) == Cardinality({i \in 1..Len(questions) : questions[i].is_correct = 1})

\* The failure signal (None) and the summary submit_and_record_exam returns.
NoSummary ==
    [ok |-> FALSE, exam_id |-> 0, score |-> 0, correct_count |-> 0,
     wrong_count |-> 0, total_questions |-> 0]

\* Variant of submit_and_record_exam: the empty submission is not rejected.
submit_and_record_exam_no_guard(tables, questions, t, faults) ==
    LET total_questions == Len(questions)
        correct_count == CountCorrect(questions)
        score == ScoreTenths(correct_count, total_questions)
        rec == record_exam_result(tables, total_questions, score, questions, t, faults)
    IN  IF rec.exam_id # 0
        THEN [tables |-> rec.tables, questions |-> rec.questions,
              ret |-> [ok |-> TRUE, exam_id |-> rec.exam_id, score |-> score,
                       correct_count |-> correct_count,
                       wrong_count |-> total_questions - correct_count,
                       total_questions |-> total_questions]]
        ELSE [tables |-> rec.tables, questions |-> rec.questions, ret |-> NoSummary]

\* ExamController.submit_and_record_exam (gradeAndRecord)
submit_and_record_exam(tables, questions, t, faults) ==
    IF questions = <<>> THEN [tables |-> tables, questions |-> questions, ret |-> NoSummary]
    ELSE
    LET total_questions == Len(questions)
        correct_count == CountCorrect(questions)
        wrong_count == total_questions - correct_count
        score == ScoreTenths(correct_count, total_questions)
        rec == record_exam_result(tables, total_questions, score, questions, t, faults)
    IN  IF rec.exam_id # 0
        THEN [tables |-> rec.tables, questions |-> rec.questions,
              ret |-> [ok |-> TRUE, exam_id |-> rec.exam_id, score |-> score,
                       correct_count |-> correct_count,
                       wrong_count |-> wrong_count,
                       total_questions |-> total_questions]]
        ELSE [tables |-> rec.tables, questions |-> rec.questions, ret |-> NoSummary]

Store == Tables(exam_history, exam_questions, wrong_note)

\* Question lists of at most n questions: any words, repeated or not.
QuestionLists(n) ==
    UNION {[1..k -> {Question(w, c) : w \in WordIds, c \in {0, 1}}] : k \in 0..n}

\* questions is the caller's list after the call; again says that the call
\* was handed the list of the call before it, prev is that call's summary.
NoExam ==
    [submitted |-> 0, clean |-> TRUE, allOk |-> TRUE, n |-> 0, calls |-> 0, faults |-> {},
     forced |-> FALSE, ret |-> NoSummary, questions |-> <<>>, again |-> FALSE,
     prev |-> NoSummary]

InitExamVars ==
    /\ exam_history = {}
    /\ exam_questions = {}
    /\ wrong_note = {}
    /\ lastExam = NoExam

\* gradeAndRecord called directly with a question list.  lastExam.clean says
\* that no statement of any call so far has failed, lastExam.allOk that every
\* call so far has returned a summary.
GradeAndRecord(questions, faults) ==
    /\ lastExam.submitted + Len(questions) <= MaxSubmitted
    /\ \E out \in {submit_and_record_exam(Store, questions, DatetimeNow, faults)} :
           /\ exam_history' = out.tables.history
           /\ exam_questions' = out.tables.questions
           /\ wrong_note' = out.tables.notes
           /\ lastExam' = [submitted |-> lastExam.submitted + Len(questions),
                           clean |-> lastExam.clean /\ faults = {},
                           allOk |-> lastExam.allOk /\ out.ret.ok,
                           n |-> Len(questions), calls |-> 1, faults |-> faults,
                           forced |-> FALSE, ret |-> out.ret,
                           questions |-> out.questions, again |-> FALSE,
                           prev |-> NoSummary]
    /\ UNCHANGED <<now, masteryVars, view, wordVars, learningVars>>

\* gradeAndRecord called once more with the list object of the call before.
Resubmit(faults) ==
    /\ lastExam.calls = 1
    /\ lastExam.n > 0
    /\ ~lastExam.again
    /\ lastExam.submitted + lastExam.n <= MaxSubmitted
    /\ \E out \in {submit_and_record_exam(Store, lastExam.questions, DatetimeNow, faults)} :
           /\ exam_history' = out.tables.history
           /\ exam_questions' = out.tables.questions
           /\ wrong_note' = out.tables.notes
           /\ lastExam' = [submitted |-> lastExam.submitted + lastExam.n,
                           clean |-> lastExam.clean /\ faults = {},
                           allOk |-> lastExam.allOk /\ out.ret.ok,
                           n |-> lastExam.n, calls |-> 1, faults |-> faults,
                           forced |-> FALSE, ret |-> out.ret,
                           questions |-> out.questions, again |-> TRUE,
                           prev |-> lastExam.ret]
    /\ UNCHANGED <<now, masteryVars, view, wordVars, learningVars>>

(***************************************************************************)
(* Exam view: views/exam_view.py                                           *)
(***************************************************************************)
\* _end_exam run once per entry of fs (one fault choice per run): the store
\* after the last run and the last summary.
RECURSIVE EndExamRuns(_, _, _, _, _)
EndExamRuns(tables, questions, t, fs, i) ==
    LET out == submit_and_record_exam(tables, questions, t, fs[i])
    IN  IF i >= Len(fs) THEN out
        ELSE EndExamRuns(out.tables, out.questions, t, fs, i + 1)

\* Word lists generate_exam_words can hand to the view: distinct words.
ExamWordLists ==
    {ws \in UNION {[1..n -> WordIds] : n \in 1..NumWords} :
        \A i, j \in 1..Len(ws) : i # j => ws[i] # ws[j]}

InitView ==
    view = [page |-> 0, exam_words |-> <<>>, exam_questions |-> <<>>,
            current_question_index |-> 0, timer_active |-> FALSE, connections |-> 0]

\* _start_exam: the start button of the setting page.  A time limit connects
\* _update_timer to the timer's timeout signal once more and starts the timer.
StartExam(exam_words, timed) ==
    /\ view.page = 0
    /\ exam_words # <<>>
    /\ lastExam.submitted < MaxSubmitted
    /\ timed => view.connections < MaxSubmitted
    /\ view' = [page |-> 1,
                exam_words |-> exam_words,
                exam_questions |-> <<>>,
                current_question_index |-> 0,
                timer_active |-> (timed \/ view.timer_active),
                connections |-> view.connections + (IF timed THEN 1 ELSE 0)]
    /\ UNCHANGED <<now, masteryVars, examVars, wordVars, learningVars>>

\* _submit_answer_and_next on a question that is not the last one.
SubmitAnswer(c) ==
    /\ view.page = 1
    /\ view.current_question_index + 1 < Len(view.exam_words)
    /\ view' = [view EXCEPT
                  !.exam_questions =
                      Append(@, Question(view.exam_words[view.current_question_index + 1], c)),
                  !.current_question_index = @ + 1]
    /\ UNCHANGED <<now, masteryVars, examVars, wordVars, learningVars>>

\* _submit_answer_and_next on the last question: _show_question calls _end_exam.
SubmitFinalAnswer(c, faults) ==
    /\ view.page = 1
    /\ view.current_question_index + 1 = Len(view.exam_words)
    /\ \E qs \in {Append(view.exam_questions,
                            Question(view.exam_words[view.current_question_index + 1], c))} :
        \E out \in {submit_and_record_exam(Store, qs, DatetimeNow, faults)} :
           /\ lastExam.submitted + Len(qs) <= MaxSubmitted
           /\ faults \in FaultChoices(qs)
           /\ exam_history' = out.tables.history
           /\ exam_questions' = out.tables.questions
           /\ wrong_note' = out.tables.notes
           /\ lastExam' = [submitted |-> lastExam.submitted + Len(qs),
                           clean |-> lastExam.clean /\ faults = {},
                           allOk |-> lastExam.allOk /\ out.ret.ok,
                           n |-> Len(qs), calls |-> 1, faults |-> faults,
                           forced |-> FALSE, ret |-> out.ret,
                           questions |-> out.questions, again |-> FALSE,
                           prev |-> NoSummary]
           /\ view' = [view EXCEPT !.exam_questions = out.questions,
                                   !.current_question_index = @ + 1,
                                   !.timer_active = FALSE,
                                   !.page = IF out.ret.ok THEN 2 ELSE 0]
    /\ UNCHANGED <<now, masteryVars, wordVars, learningVars>>

\* The timer's timeout signal with the time limit used up: _update_timer runs
\* once per connection, and each run stops the timer and calls _end_exam.
TimerExpire(fs) ==
    /\ view.timer_active
    /\ lastExam.submitted + view.connections * Len(view.exam_questions) <= MaxSubmitted
    /\ \E out \in {EndExamRuns(Store, view.exam_questions, DatetimeNow, fs, 1)} :
           /\ exam_history' = out.tables.history
           /\ exam_questions' = out.tables.questions
           /\ wrong_note' = out.tables.notes
           /\ lastExam' = [submitted |-> lastExam.submitted
                                         + view.connections * Len(view.exam_questions),
                           clean |-> lastExam.clean /\ \A i \in 1..Len(fs) : fs[i] = {},
                           allOk |-> lastExam.allOk /\ out.ret.ok,
                           n |-> Len(view.exam_questions),
                           calls |-> view.connections,
                           faults |-> UNION {fs[i] : i \in 1..Len(fs)},
                           forced |-> TRUE, ret |-> out.ret,
                           questions |-> out.questions,
                           again |-> view.connections > 1,
                           prev |-> NoSummary]
           /\ view' = [view EXCEPT !.exam_questions = out.questions,
                                   !.timer_active = FALSE,
                                   !.page = IF out.ret.ok THEN 2 ELSE 0]
    /\ UNCHANGED <<now, masteryVars, wordVars, learningVars>>

\* restart_btn of the result page
Restart ==
    /\ view.page = 2
    /\ view' = [view EXCEPT !.page = 0]
    /\ UNCHANGED <<now, masteryVars, examVars, wordVars, learningVars>>

(***************************************************************************)
(* Word list and queries: models/word_model.py, models/statistics_model.py,*)
(* models/exam_model.py, controllers/exam_controller.py                    *)
(*                                                                         *)
(* A row of words is [word_id, word_text, category, is_deleted,            *)
(* modified_date]; the meaning, the memo and created_date of a word are    *)
(* stored and not read by the operations modelled.  A text is a sequence of characters: 0 is the  *)
(* blank, every other number a letter.  A query returns a list of joined   *)
(* rows; where SQL leaves the order of equal keys open, every order        *)
(* compatible with ORDER BY is a possible result.                          *)
(***************************************************************************)
Categories == {"A", "B"}

WordRow(w, text, category, is_deleted, modified_date) ==
    [word_id |-> w, word_text |-> text, category |-> category, is_deleted |-> is_deleted,
     modified_date |-> modified_date]

\* The word list with the given deletion marks and categories; word w has the
\* one-letter text <<w>> and was last modified at the instant 0.
WordList(del, cat) == {WordRow(w, <<w>>, cat[w], del[w], Stamp(0, 0)) : w \in WordIds}

\* count is the limit or count argument, <<>> when it is None; dist is the
\* dict a distribution query returns, <<>> the empty dict.
QueryResult(op, count, mode, category, failed, rows, dist) ==
    [op |-> op, count |-> count, mode |-> mode, category |-> category,
     failed |-> failed, rows |-> rows, dist |-> dist]

NoResult == QueryResult("none", <<>>, "", "", FALSE, <<>>, <<>>)

InitWordVars ==
    /\ words = WordList([w \in WordIds |-> 0], [w \in WordIds |-> "A"])
    /\ result = NoResult

\* The lists that hold every element of S once, in an order in which no
\* element comes after one that it precedes; precedes is a set of pairs.
Orderings(S, precedes) ==
    {s \in [1..Cardinality(S) -> S] :
        /\ \A i, j \in 1..Cardinality(S) : i # j => s[i] # s[j]
        /\ \A i, j \in 1..Cardinality(S) : i < j => <<s[j], s[i]>> \notin precedes}

\* LIMIT n (a negative n is no limit)
Limit(s, n) == IF n < 0 \/ n >= Len(s) THEN s ELSE SubSeq(s, 1, n)

\* strftime('%Y-%m-%d 23:59:59'): the last instant of the day
FormatEndOfDay(t) == Stamp(t.day, TicksPerDay - 1)

\* next_review of a is earlier than that of b
EarlierReview(a, b) == ~StampLeq(b.next_review, a.next_review)

\* Variant of select_review_words: ORDER BY next_review DESC.
select_review_words_newest_first(wordsT, stats, t, limit, fails) ==
    LET today == FormatEndOfDay(t)
        joined == {[word_id |-> p[1].word_id, mastery_level |-> p[2].mastery_level,
                    next_review |-> p[2].next_review] :
                      p \in {x \in wordsT \X stats :
                                /\ x[1].word_id = x[2].word_id
                                /\ x[1].is_deleted = 0
                                /\ StampLeq(x[2].next_review, today)}}
    IN  IF fails THEN {<<>>}
        ELSE {Limit(s, limit) :
                 s \in Orderings(joined, {p \in joined \X joined : EarlierReview(p[2], p[1])})}

\* StatisticsModel.select_review_words: the lists the call can return.  fails
\* says that connecting or the SELECT raises.
select_review_words(wordsT, stats, t, limit, fails) ==
    LET today == FormatEndOfDay(t)
        joined == {[word_id |-> p[1].word_id, mastery_level |-> p[2].mastery_level,
                    next_review |-> p[2].next_review] :
                      p \in {x \in wordsT \X stats :
                                /\ x[1].word_id = x[2].word_id
                                /\ x[1].is_deleted = 0
                                /\ StampLeq(x[2].next_review, today)}}
    IN  IF fails THEN {<<>>}
        ELSE {Limit(s, limit) :
                 s \in Orderings(joined, {p \in joined \X joined : EarlierReview(p[1], p[2])})}

\* selectDueWords(limit)
SelectDueWords(limit, fails) ==
    /\ \E rows \in select_review_words(words, word_statistics, DatetimeNow, limit, fails) :
          result' = QueryResult("select_review_words", <<limit>>, "", "", fails, rows, <<>>)
    /\ UNCHANGED <<now, masteryVars, examVars, view, words, learningVars>>

\* What a word's mastery record was made from: nothing, or a first answer on
\* some day up to day.
FirstAnswers(day) ==
    {[answered |-> FALSE, day |-> 0, is_correct |-> FALSE]}
        \cup {[answered |-> TRUE, day |-> d, is_correct |-> c] : d \in 0..day, c \in BOOLEAN}

\* word_statistics after update_statistics has recorded h[w] for the words 1..n
RECURSIVE StatsAfter(_, _)
StatsAfter(h, n) ==
    IF n = 0 THEN {}
    ELSE LET table == StatsAfter(h, n - 1)
         IN  IF h[n].answered
             THEN update_statistics(table, n, h[n].is_correct, Stamp(h[n].day, 0),
                                    FALSE, FALSE).table
             ELSE table

\* Any day up to MaxDay, any instant of it; any word deleted or not, answered
\* once before or not at all.
InitDue ==
    /\ now \in 0..(MaxDay * TicksPerDay + TicksPerDay - 1)
    /\ \E del \in [WordIds -> {0, 1}] : words = WordList(del, [w \in WordIds |-> "A"])
    /\ \E h \in [WordIds -> FirstAnswers(now \div TicksPerDay)] :
          /\ word_statistics = StatsAfter(h, NumWords)
          /\ attempts = [w \in WordIds |-> IF h[w].answered THEN 1 ELSE 0]
          /\ corrects = [w \in WordIds |-> IF h[w].answered /\ h[w].is_correct THEN 1 ELSE 0]
          /\ streak = [w \in WordIds |-> IF h[w].answered /\ h[w].is_correct THEN 1 ELSE 0]
          /\ reviewed = [w \in WordIds |-> IF h[w].answered THEN <<h[w].day>> ELSE <<>>]
    /\ lastOutcome = "none"
    /\ InitExamVars
    /\ InitView
    /\ InitLearningVars
    /\ result = NoResult

\* Variant of get_mastery_distribution: only the levels that have records.
get_mastery_distribution_no_fill(stats, fault) ==
    IF fault = "connect" THEN <<>>
    ELSE LET rows == IF fault = "select" THEN {} ELSE stats
         IN  [level \in {r.mastery_level : r \in rows} |->
                 Cardinality({r \in rows : r.mastery_level = level})]

\* StatisticsModel.get_mastery_distribution: the dict returned.  fault is
\* "none", "connect" (connecting raises: the except branch returns {}) or
\* "select" (the SELECT raises inside execute: fetchall returns []).
get_mastery_distribution(stats, fault) ==
    IF fault = "connect" THEN <<>>
    ELSE LET rows == IF fault = "select" THEN {} ELSE stats
             distribution == [level \in {r.mastery_level : r \in rows} |->
                                 Cardinality({r \in rows : r.mastery_level = level})]
         IN  [level \in 0..MAX_MASTERY_LEVEL |->
                 IF level \in DOMAIN distribution THEN distribution[level] ELSE 0]

\* getMasteryDistribution()
GetMasteryDistribution(fault) ==
    /\ result' = QueryResult("get_mastery_distribution", <<>>, "", "", fault # "none",
                             <<>>, get_mastery_distribution(word_statistics, fault))
    /\ UNCHANGED <<now, masteryVars, examVars, view, words, learningVars>>

\* What a word's mastery record was made from: n answers, all correct or all
\* incorrect.
AnswerRuns ==
    {[n |-> k, is_correct |-> c] : k \in 0..MaxAnswers, c \in BOOLEAN}
        \ {[n |-> 0, is_correct |-> FALSE]}

\* table after update_statistics has recorded k more answers to word w
RECURSIVE RepeatAnswers(_, _, _, _, _)
RepeatAnswers(table, w, is_correct, k, t) ==
    IF k = 0 THEN table
    ELSE update_statistics(RepeatAnswers(table, w, is_correct, k - 1, t), w, is_correct, t,
                           FALSE, FALSE).table

\* word_statistics after the runs h[w] of the words 1..n
RECURSIVE StatsAfterRuns(_, _, _)
StatsAfterRuns(h, n, t) ==
    IF n = 0 THEN {}
    ELSE RepeatAnswers(StatsAfterRuns(h, n - 1, t), n, h[n].is_correct, h[n].n, t)

\* Any word deleted or not, with or without a mastery record of any level.
InitDistribution ==
    /\ now = 1
    /\ \E del \in [WordIds -> {0, 1}] : words = WordList(del, [w \in WordIds |-> "A"])
    /\ \E h \in [WordIds -> AnswerRuns] :
          /\ word_statistics = StatsAfterRuns(h, NumWords, DatetimeNow)
          /\ attempts = [w \in WordIds |-> h[w].n]
          /\ corrects = [w \in WordIds |-> IF h[w].is_correct THEN h[w].n ELSE 0]
          /\ streak = [w \in WordIds |-> IF h[w].is_correct THEN h[w].n ELSE 0]
          /\ reviewed = [w \in WordIds |-> IF h[w].n > 0 THEN <<DatetimeNow.day>> ELSE <<>>]
    /\ lastOutcome = "none"
    /\ InitExamVars
    /\ InitView
    /\ InitLearningVars
    /\ result = NoResult

\* ORDER BY N.wrong_count DESC, N.last_wrong_date ASC: a ranks before b
RankedBefore(a, b) ==
    \/ a.wrong_count > b.wrong_count
    \/ a.wrong_count = b.wrong_count /\ ~StampLeq(b.last_wrong_date, a.last_wrong_date)

\* Variant of select_wrong_words_for_review: without WHERE W.is_deleted = 0.
select_wrong_words_for_review_all_words(wordsT, notes, limit, fails) ==
    LET joined == {[word_id |-> p[1].word_id, wrong_count |-> p[2].wrong_count,
                    last_wrong_date |-> p[2].last_wrong_date] :
                      p \in {x \in wordsT \X notes : x[1].word_id = x[2].word_id}}
    IN  IF fails THEN {<<>>}
        ELSE {IF limit = <<>> THEN s ELSE Limit(s, limit[1]) :
                 s \in Orderings(joined, {p \in joined \X joined : RankedBefore(p[1], p[2])})}

\* ExamModel.select_wrong_words_for_review: the lists the call can return.
\* limit is <<>> for None and <<n>> for n.
select_wrong_words_for_review(wordsT, notes, limit, fails) ==
    LET joined == {[word_id |-> p[1].word_id, wrong_count |-> p[2].wrong_count,
                    last_wrong_date |-> p[2].last_wrong_date] :
                      p \in {x \in wordsT \X notes :
                                x[1].word_id = x[2].word_id /\ x[1].is_deleted = 0}}
    IN  IF fails THEN {<<>>}
        ELSE {IF limit = <<>> THEN s ELSE Limit(s, limit[1]) :
                 s \in Orderings(joined, {p \in joined \X joined : RankedBefore(p[1], p[2])})}

\* Variant of select_active_words: without WHERE is_deleted = 0.
select_active_words_with_deleted(wordsT, fails) ==
    IF fails THEN {} ELSE wordsT

\* WordModel.select_active_words: the rows, which the caller shuffles
select_active_words(wordsT, fails) ==
    IF fails THEN {} ELSE {W \in wordsT : W.is_deleted = 0}

\* WordModel.select_by_category
select_by_category(wordsT, category, fails) ==
    IF fails THEN {} ELSE {W \in wordsT : W.is_deleted = 0 /\ W.category = category}

\* ExamController._get_candidate_words; the category "" stands for None and
\* for the empty string
get_candidate_words(wordsT, category, fails) ==
    IF category # "" THEN select_by_category(wordsT, category, fails)
    ELSE select_active_words(wordsT, fails)

\* list[:n]
SliceTo(s, n) ==
    IF n >= Len(s) THEN s
    ELSE IF n >= 0 THEN SubSeq(s, 1, n)
    ELSE IF Len(s) + n > 0 THEN SubSeq(s, 1, Len(s) + n) ELSE <<>>

\* random.shuffle: any order
Shuffles(S) == {s \in [1..Cardinality(S) -> S] : \A i, j \in 1..Cardinality(S) : i # j => s[i] # s[j]}

\* Variant of generate_exam_words: the wrong_note mode fills up with other words.
generate_exam_words_backfill(wordsT, notes, question_count, mode, category, fails) ==
    IF mode = "wrong_note"
    THEN LET ranked == select_wrong_words_for_review(wordsT, notes, <<question_count>>, fails)
         IN  {r \o SliceTo(s, question_count - Len(r)) :
                 r \in ranked, s \in Shuffles(select_active_words(wordsT, fails))}
    ELSE LET all_words == get_candidate_words(wordsT, category, fails)
             count == IF Cardinality(all_words) < question_count
                      THEN Cardinality(all_words) ELSE question_count
         IN  {SliceTo(s, count) : s \in Shuffles(all_words)}

\* ExamController.generate_exam_words: the lists the call can return
generate_exam_words(wordsT, notes, question_count, mode, category, fails) ==
    IF mode = "wrong_note"
    THEN select_wrong_words_for_review(wordsT, notes, <<question_count>>, fails)
    ELSE LET all_words == get_candidate_words(wordsT, category, fails)
             count == IF Cardinality(all_words) < question_count
                      THEN Cardinality(all_words) ELSE question_count
         IN  {SliceTo(s, count) : s \in Shuffles(all_words)}

\* selectForReview(limit?)
SelectForReview(limit, fails) ==
    /\ \E rows \in select_wrong_words_for_review(words, wrong_note, limit, fails) :
          result' = QueryResult("select_wrong_words_for_review", limit, "", "", fails,
                                rows, <<>>)
    /\ UNCHANGED <<now, masteryVars, examVars, view, words, learningVars>>

\* selectExamWords(count, mode, category)
SelectExamWords(question_count, mode, category, fails) ==
    /\ \E rows \in generate_exam_words(words, wrong_note, question_count, mode, category,
                                       fails) :
          result' = QueryResult("generate_exam_words", <<question_count>>, mode, category,
                                fails, rows, <<>>)
    /\ UNCHANGED <<now, masteryVars, examVars, view, words, learningVars>>

\* The timestamp of instant i
InstantStamp(i) == Stamp(i \div TicksPerDay, i % TicksPerDay)

\* What a word's wrong-note entry was made from: no exam, or one exam, at the
\* first instant or at the present one, in which the word was answered
\* incorrectly n times.
MissedExams ==
    {[n |-> 0, at |-> 0]} \cup {[n |-> k, at |-> i] : k \in 1..MaxWrong, i \in {0, MaxClock}}

\* The store after the exams h[w] of the words 1..n
RECURSIVE StoreAfterExams(_, _)
StoreAfterExams(h, n) ==
    IF n = 0 THEN Tables({}, {}, {})
    ELSE LET before == StoreAfterExams(h, n - 1)
         IN  IF h[n].n = 0 THEN before
             ELSE submit_and_record_exam(before, [i \in 1..h[n].n |-> Question(n, 0)],
                                         InstantStamp(h[n].at), {}).tables

\* Any word deleted or not, with or without a wrong-note entry.
InitReview ==
    /\ now = MaxClock
    /\ \E del \in [WordIds -> {0, 1}] : words = WordList(del, [w \in WordIds |-> "A"])
    /\ \E h \in [WordIds -> MissedExams] :
          \E store \in {StoreAfterExams(h, NumWords)} :
              /\ exam_history = store.history
              /\ exam_questions = store.questions
              /\ wrong_note = store.notes
    /\ lastExam = NoExam
    /\ InitMasteryVars
    /\ InitView
    /\ InitLearningVars
    /\ result = NoResult

\* Any word deleted or not, of one category or the other.
InitRandom ==
    /\ now = 1
    /\ \E del \in [WordIds -> {0, 1}] : \E cat \in [WordIds -> Categories] :
          words = WordList(del, cat)
    /\ InitMasteryVars
    /\ InitExamVars
    /\ InitView
    /\ InitLearningVars
    /\ result = NoResult

(***************************************************************************)
(* Word management: controllers/word_controller.py, models/word_model.py,  *)
(* models/base_model.py, utils/file_handler.py                             *)
(*                                                                         *)
(* No constraint on words.word_text is visible in the code: the duplicate  *)
(* checks below are all that keeps the texts apart.  A new row is not      *)
(* deleted (is_deleted 0).                                                 *)
(***************************************************************************)
Blank == 0

RECURSIVE LStrip(_)
LStrip(text) == IF text # <<>> /\ Head(text) = Blank THEN LStrip(Tail(text)) ELSE text

RECURSIVE RStrip(_)
RStrip(text) ==
    IF text # <<>> /\ text[Len(text)] = Blank THEN RStrip(SubSeq(text, 1, Len(text) - 1))
    ELSE text

\* str.strip()
Strip(text) == RStrip(LStrip(text))

\* The texts typed or read from a file: two words, with and without a blank
\* before or after them.
Texts == {<<1>>, <<2>>, <<Blank, 1>>, <<2, Blank>>}

\* WordModel.is_word_exist; exclude_id 0 stands for None.  fault is "none",
\* "connect" (connecting raises: True) or "select" (the SELECT raises inside
\* execute: fetchone returns None).
is_word_exist(wordsT, word_text, exclude_id, fault) ==
    IF fault = "connect" THEN TRUE
    ELSE IF fault = "select" THEN FALSE
    ELSE \E W \in wordsT : /\ W.word_text = word_text
                           /\ W.is_deleted = 0
                           /\ exclude_id # 0 => W.word_id # exclude_id

\* WordController.add_word with BaseModel.insert: the table after the call and
\* the value returned: the new word_id, 0 for a duplicate, -1 for None.
add_word(wordsT, word_text, category, t, fault, writeFails) ==
    LET text == Strip(word_text)
    IN  IF is_word_exist(wordsT, text, 0, fault) THEN [table |-> wordsT, ret |-> 0]
        ELSE IF writeFails THEN [table |-> wordsT, ret |-> -1]
        ELSE LET word_id == NextRowId(wordsT, "word_id")
             IN  [table |-> wordsT \cup {WordRow(word_id, text, category, 0, FormatFull(t))},
                  ret |-> word_id]

\* WordController.update_word with BaseModel.update
update_word(wordsT, word_id, word_text, category, t, fault, writeFails) ==
    LET text == Strip(word_text)
        rows == {W \in wordsT : W.word_id = word_id}
    IN  IF is_word_exist(wordsT, text, word_id, fault) THEN [table |-> wordsT, ret |-> FALSE]
        ELSE IF writeFails \/ rows = {} THEN [table |-> wordsT, ret |-> FALSE]
        ELSE [table |-> (wordsT \ rows)
                          \cup {[W EXCEPT !.word_text = text, !.category = category,
                                           !.modified_date = FormatFull(t)] : W \in rows},
              ret |-> TRUE]

\* Variant of delete_word: the row is removed from the table.
delete_word_hard(wordsT, word_id, t, writeFails) ==
    LET rows == {W \in wordsT : W.word_id = word_id}
    IN  IF writeFails \/ rows = {} THEN [table |-> wordsT, ret |-> FALSE]
        ELSE [table |-> wordsT \ rows, ret |-> TRUE]

\* WordController.delete_word with BaseModel.delete (logical_delete):
\* UPDATE words SET is_deleted = 1, modified_date = ? WHERE word_id = ?
delete_word(wordsT, word_id, t, writeFails) ==
    LET rows == {W \in wordsT : W.word_id = word_id}
    IN  IF writeFails \/ rows = {} THEN [table |-> wordsT, ret |-> FALSE]
        ELSE [table |-> (wordsT \ rows)
                          \cup {[W EXCEPT !.is_deleted = 1, !.modified_date = FormatFull(t)] :
                                   W \in rows},
              ret |-> TRUE]

\* WordModel.get_word_by_text: the rows the SELECT matches
get_word_by_text(wordsT, word_text) ==
    {W \in wordsT : W.word_text = word_text /\ W.is_deleted = 0}

\* WordModel.update_word_by_text: every column of the file but word_text
update_word_by_text(wordsT, word_text, data, t) ==
    LET rows == get_word_by_text(wordsT, word_text)
    IN  (wordsT \ rows)
            \cup {[W EXCEPT !.category = data.category, !.modified_date = FormatFull(t)] :
                     W \in rows}

\* WordModel.insert_word
insert_word(wordsT, data, t) ==
    wordsT \cup {WordRow(NextRowId(wordsT, "word_id"), Strip(data.word_text),
                         data.category, 0, FormatFull(t))}

\* Variant of import_rows: the text of a row is stripped before it is looked up.
RECURSIVE import_rows_stripped(_, _, _, _)
import_rows_stripped(wordsT, word_list, i, t) ==
    IF i > Len(word_list) THEN [table |-> wordsT, added |-> 0, updated |-> 0]
    ELSE LET word_data == [word_list[i] EXCEPT !.word_text = Strip(@)]
             existing_word == get_word_by_text(wordsT, word_data.word_text)
             next == IF existing_word # {}
                     THEN update_word_by_text(wordsT, word_data.word_text, word_data, t)
                     ELSE insert_word(wordsT, word_data, t)
             rest == import_rows_stripped(next, word_list, i + 1, t)
         IN  [table |-> rest.table,
              added |-> rest.added + (IF existing_word = {} THEN 1 ELSE 0),
              updated |-> rest.updated + (IF existing_word # {} THEN 1 ELSE 0)]

\* FileHandler.import_words_from_csv, the loop over the rows from row i on
RECURSIVE import_rows(_, _, _, _)
import_rows(wordsT, word_list, i, t) ==
    IF i > Len(word_list) THEN [table |-> wordsT, added |-> 0, updated |-> 0]
    ELSE LET word_data == word_list[i]
             existing_word == get_word_by_text(wordsT, word_data.word_text)
             next == IF existing_word # {}
                     THEN update_word_by_text(wordsT, word_data.word_text, word_data, t)
                     ELSE insert_word(wordsT, word_data, t)
             rest == import_rows(next, word_list, i + 1, t)
         IN  [table |-> rest.table,
              added |-> rest.added + (IF existing_word = {} THEN 1 ELSE 0),
              updated |-> rest.updated + (IF existing_word # {} THEN 1 ELSE 0)]

\* What a word operation leaves in result
WordResult(op, word_id, word_text, failed, ret) ==
    [op |-> op, word_id |-> word_id, word_text |-> word_text, failed |-> failed, ret |-> ret]

ExistFaults == {"none", "connect", "select"}

AddWord(word_text, category, fault, writeFails) ==
    /\ Cardinality(words) < NumWords
    /\ \E out \in {add_word(words, word_text, category, DatetimeNow, fault, writeFails)} :
          /\ words' = out.table
          /\ result' = WordResult("add_word", 0, word_text, fault # "none" \/ writeFails,
                                  out.ret)
    /\ UNCHANGED <<now, masteryVars, examVars, view, learningVars>>

UpdateWord(word_id, word_text, category, fault, writeFails) ==
    /\ \E out \in {update_word(words, word_id, word_text, category, DatetimeNow, fault,
                               writeFails)} :
          /\ words' = out.table
          /\ result' = WordResult("update_word", word_id, word_text,
                                  fault # "none" \/ writeFails, out.ret)
    /\ UNCHANGED <<now, masteryVars, examVars, view, learningVars>>

\* Variant of DeleteWord: the wrong-note entry of the word goes with it.
DeleteWord_with_entry(word_id, writeFails) ==
    /\ \E out \in {delete_word(words, word_id, DatetimeNow, writeFails)} :
          /\ words' = out.table
          /\ wrong_note' = IF out.ret THEN {N \in wrong_note : N.word_id # word_id}
                            ELSE wrong_note
          /\ result' = WordResult("delete_word", word_id, <<>>, writeFails, out.ret)
    /\ UNCHANGED <<now, masteryVars, exam_history, exam_questions, lastExam, view,
                   learningVars>>

DeleteWord(word_id, writeFails) ==
    /\ \E out \in {delete_word(words, word_id, DatetimeNow, writeFails)} :
          /\ words' = out.table
          /\ result' = WordResult("delete_word", word_id, <<>>, writeFails, out.ret)
    /\ UNCHANGED <<now, masteryVars, examVars, view, learningVars>>

\* The files of at most MaxCsvRows rows
CsvFiles ==
    UNION {[1..k -> [word_text : Texts, category : Categories]] : k \in 1..MaxCsvRows}

\* import_words_from_csv of a file that is read without an error
ImportCsv(word_list) ==
    /\ Cardinality(words) + Len(word_list) <= NumWords
    /\ \E out \in {import_rows(words, word_list, 1, DatetimeNow)} :
          /\ words' = out.table
          /\ result' = WordResult("import_words_from_csv", 0, <<>>, FALSE,
                                  [total |-> Len(word_list), added |-> out.added,
                                   updated |-> out.updated])
    /\ UNCHANGED <<now, masteryVars, examVars, view, learningVars>>

\* The program is started with an empty word list.
InitWords ==
    /\ now = 1
    /\ words = {}
    /\ result = NoResult
    /\ InitMasteryVars
    /\ InitExamVars
    /\ InitView
    /\ InitLearningVars

\* A flashcard session has been started on the words of the list, which holds
\* every word but the one with the highest id: that id is in no row of words.
InitLearning ==
    /\ now = 1
    /\ words = {W \in WordList([w \in WordIds |-> 0], [w \in WordIds |-> "A"]) :
                   W.word_id < NumWords}
    /\ result = NoResult
    /\ InitMasteryVars
    /\ InitExamVars
    /\ InitView
    /\ learning_sessions = start_session({}, NumWords - 1, InstantStamp(0), FALSE).table
    /\ learning_history = {}
    /\ lastEvent = NoEvent
    /\ callers = [c \in Callers |-> Idle]

\* The days on which the due-word query is tried: the day of the last answer
\* and, for every interval of the table, the day before it has passed and the
\* day on which it has passed.
QueryDays == {0} \cup UNION {{i - 1, i} : i \in {1, 3, 7, 14, 30, 365}}

\* What a word's mastery record was made from on day 0: nothing, one incorrect
\* answer, or a run of correct answers up to one past the top level.
ScheduleRuns ==
    {r \in AnswerRuns : (r.is_correct /\ r.n <= MAX_MASTERY_LEVEL + 1) \/ r.n = 1}

\* Every word was last answered on day 0 or never; the clock has moved on to
\* one of the query days.
InitSchedule ==
    /\ \E d \in QueryDays : \E tod \in {0, TicksPerDay - 1} : now = d * TicksPerDay + tod
    /\ \E del \in [WordIds -> {0, 1}] : words = WordList(del, [w \in WordIds |-> "A"])
    /\ \E h \in [WordIds -> ScheduleRuns] :
          /\ word_statistics = StatsAfterRuns(h, NumWords, InstantStamp(1))
          /\ attempts = [w \in WordIds |-> h[w].n]
          /\ corrects = [w \in WordIds |-> IF h[w].is_correct THEN h[w].n ELSE 0]
          /\ streak = [w \in WordIds |-> IF h[w].is_correct THEN h[w].n ELSE 0]
          /\ reviewed = [w \in WordIds |-> IF h[w].n > 0 THEN <<InstantStamp(1).day>> ELSE <<>>]
    /\ lastOutcome = "none"
    /\ InitExamVars
    /\ InitView
    /\ InitLearningVars
    /\ result = NoResult

\* Every word has been answered once on day 0 or never; no caller has called.
InitRace ==
    /\ now = TicksPerDay
    /\ words = WordList([w \in WordIds |-> 0], [w \in WordIds |-> "A"])
    /\ \E h \in [WordIds -> FirstAnswers(0)] :
          /\ word_statistics = StatsAfter(h, NumWords)
          /\ attempts = [w \in WordIds |-> IF h[w].answered THEN 1 ELSE 0]
          /\ corrects = [w \in WordIds |-> IF h[w].answered /\ h[w].is_correct THEN 1 ELSE 0]
          /\ streak = [w \in WordIds |-> IF h[w].answered /\ h[w].is_correct THEN 1 ELSE 0]
          /\ reviewed = [w \in WordIds |-> IF h[w].answered THEN <<h[w].day>> ELSE <<>>]
    /\ lastOutcome = "none"
    /\ InitExamVars
    /\ InitView
    /\ InitLearningVars
    /\ result = NoResult

\* Every word of the list was answered incorrectly once on day 0, in a
\* flashcard session and in an exam, so that on day 1 every word is due and has
\* a wrong-note entry; no word is deleted.
InitDelete ==
    /\ now = TicksPerDay
    /\ words = WordList([w \in WordIds |-> 0], [w \in WordIds |-> "A"])
    /\ word_statistics
          = StatsAfter([w \in WordIds |-> [answered |-> TRUE, day |-> 0, is_correct |-> FALSE]],
                       NumWords)
    /\ attempts = [w \in WordIds |-> 1]
    /\ corrects = [w \in WordIds |-> 0]
    /\ streak = [w \in WordIds |-> 0]
    /\ reviewed = [w \in WordIds |-> <<0>>]
    /\ lastOutcome = "none"
    /\ \E store \in {StoreAfterExams([w \in WordIds |-> [n |-> 1, at |-> 0]], NumWords)} :
          /\ exam_history = store.history
          /\ exam_questions = store.questions
          /\ wrong_note = store.notes
    /\ lastExam = NoExam
    /\ InitView
    /\ InitLearningVars
    /\ result = NoResult

\* What a word's wrong-note entry was made from: no exam, or one exam at the
\* instant 0 in which the word was answered incorrectly n times.
LedgerExams == {r \in MissedExams : r.at = 0}

\* The word list holds every word, or every word but the one with the highest
\* id; any word of the list has a wrong-note entry or none; a flashcard
\* session has been started.
InitLedger ==
    /\ now = MaxClock
    /\ \E k \in {NumWords - 1, NumWords} :
          /\ words = {W \in WordList([w \in WordIds |-> 0], [w \in WordIds |-> "A"]) :
                         W.word_id <= k}
          /\ \E h \in [WordIds -> LedgerExams] :
                /\ \A w \in WordIds : w > k => h[w].n = 0
                /\ \E store \in {StoreAfterExams(h, NumWords)} :
                      /\ exam_history = store.history
                      /\ exam_questions = store.questions
                      /\ wrong_note = store.notes
    /\ lastExam = NoExam
    /\ InitMasteryVars
    /\ InitView
    /\ learning_sessions = start_session({}, NumWords, InstantStamp(0), FALSE).table
    /\ learning_history = {}
    /\ lastEvent = NoEvent
    /\ callers = [c \in Callers |-> Idle]
    /\ result = NoResult

(***************************************************************************)
(* Specifications.                                                         *)
(***************************************************************************)
\* The program is started on day 0, after midnight, with every word in the list.
Init ==
    /\ now = 1
    /\ InitMasteryVars
    /\ InitExamVars
    /\ InitView
    /\ InitLearningVars
    /\ InitWordVars

\* The exam engine, called directly.
Next ==
    \/ \E qs \in QuestionLists(MaxSubmitted - lastExam.submitted) : \E faults \in FaultChoices(qs) : GradeAndRecord(qs, faults)
    \/ \E faults \in FaultChoices(lastExam.questions) : Resubmit(faults)
    \/ Tick

Spec == Init /\ [][Next]_vars

\* The exam engine driven by the exam view.  Nothing on this path reads the
\* clock but the timestamps written, so the clock stands still here; a call
\* runs without a fault or fails to connect (Spec covers the other faults).
ViewFaultChoices == {{}, {Fault("connect", 0)}}

NextView ==
    \/ \E ws \in ExamWordLists : \E timed \in BOOLEAN : StartExam(ws, timed)
    \/ \E c \in {0, 1} : SubmitAnswer(c)
    \/ \E c \in {0, 1} : \E faults \in ViewFaultChoices : SubmitFinalAnswer(c, faults)
    \/ \E fs \in [1..view.connections -> ViewFaultChoices] : TimerExpire(fs)
    \/ Restart

SpecView == Init /\ [][NextView]_vars

\* recordEvent in a session that has been started.
NextLearning ==
    \E S \in learning_sessions : \E w \in WordIds :
        \E is_correct, historyFails, lookupFails, writeFails \in BOOLEAN :
            RecordEvent(S.session_id, w, is_correct, historyFails, lookupFails, writeFails)

SpecLearning == InitLearning /\ [][NextLearning]_vars

\* Sessions started and ended, on ids that name a session or none.
SessionCounts == {<<1, 0>>, <<0, 1>>}

NextSession ==
    \/ \E total_words \in {0, 1} : \E writeFails \in BOOLEAN :
          StartSession(total_words, writeFails)
    \/ \E session_id \in 1..MaxSessions + 1 : \E counts \in SessionCounts :
          \E writeFails \in BOOLEAN :
             EndSession(session_id, counts[1], counts[2], writeFails)
    \/ Tick

SpecSession == Init /\ [][NextSession]_vars

\* update_statistics called once by each of several callers, their lookups and
\* writes in any order.
NextRace ==
    \/ \E c \in Callers : \E w \in WordIds : \E is_correct \in BOOLEAN : Lookup(c, w, is_correct)
    \/ \E c \in Callers : Write(c)

SpecRace == InitRace /\ [][NextRace]_vars

\* The mastery tracker.
NextMastery ==
    \/ \E w \in WordIds : \E is_correct, lookupFails, writeFails \in BOOLEAN :
          RecordOutcome(w, is_correct, lookupFails, writeFails)
    \/ Tick

SpecMastery == Init /\ [][NextMastery]_vars

\* The due-word query on a word list with mastery records.
NextDue == \E limit \in 0..NumWords + 1 : \E fails \in BOOLEAN : SelectDueWords(limit, fails)

SpecDue == InitDue /\ [][NextDue]_vars

\* The due-word query, with room for every word, on the days after an answer.
NextSchedule == \E fails \in BOOLEAN : SelectDueWords(NumWords, fails)

SpecSchedule == InitSchedule /\ [][NextSchedule]_vars

\* The level distribution of a word list with mastery records.
NextDistribution == \E fault \in {"none", "connect", "select"} : GetMasteryDistribution(fault)

SpecDistribution == InitDistribution /\ [][NextDistribution]_vars

\* The wrong-note queries on a word list with wrong-note entries.
Limits == {<<>>} \cup {<<n>> : n \in 0..NumWords + 1}

NextReview ==
    \/ \E limit \in Limits : \E fails \in BOOLEAN : SelectForReview(limit, fails)
    \/ \E count \in 0..NumWords + 1 : \E category \in {"", "A"} : \E fails \in BOOLEAN :
          SelectExamWords(count, "wrong_note", category, fails)

SpecReview == InitReview /\ [][NextReview]_vars

\* The random selection of exam words from a word list with categories.
NextRandom ==
    \E count \in 0..NumWords + 1 : \E category \in {""} \cup Categories : \E fails \in BOOLEAN :
        SelectExamWords(count, "random", category, fails)

SpecRandom == InitRandom /\ [][NextRandom]_vars

\* Words deleted and updated, and the selections that read the word list.
NextDelete ==
    \/ \E word_id \in WordIds : \E writeFails \in BOOLEAN : DeleteWord(word_id, writeFails)
    \/ \E word_id \in WordIds : \E category \in Categories :
          UpdateWord(word_id, <<word_id>>, category, "none", FALSE)
    \/ \E fails \in BOOLEAN : SelectDueWords(NumWords, fails)
    \/ \E fails \in BOOLEAN : SelectForReview(<<>>, fails)
    \/ \E mode \in {"random", "wrong_note"} : \E fails \in BOOLEAN :
          SelectExamWords(NumWords, mode, "", fails)

SpecDelete == InitDelete /\ [][NextDelete]_vars

\* The word list under add, update, delete and CSV import.
NextWords ==
    \/ \E word_text \in Texts : \E category \in Categories : \E fault \in ExistFaults :
          \E writeFails \in BOOLEAN : AddWord(word_text, category, fault, writeFails)
    \/ \E word_id \in WordIds : \E word_text \in Texts : \E category \in Categories :
          \E fault \in ExistFaults : \E writeFails \in BOOLEAN :
             UpdateWord(word_id, word_text, category, fault, writeFails)
    \/ \E word_id \in WordIds : \E writeFails \in BOOLEAN : DeleteWord(word_id, writeFails)
    \/ \E word_list \in CsvFiles : ImportCsv(word_list)

SpecWords == InitWords /\ [][NextWords]_vars

(***************************************************************************)
(* Properties of the exam engine, checked under Spec.                      *)
(***************************************************************************)
\* A gradeAndRecord call in which a statement failed
FaultedCall == lastExam.calls = 1 /\ lastExam.n > 0 /\ lastExam.faults # {}

\* The exam whose id the last summary carries is stored with all its questions.
SummaryCommitted ==
    /\ \E h \in exam_history : h.exam_id = lastExam.ret.exam_id
    /\ Cardinality({q \in exam_questions : q.exam_id = lastExam.ret.exam_id})
         = lastExam.ret.total_questions

\* C1: gradeAndRecord is all-or-nothing: when any statement of a call fails
\* (the exam row, a question row, a wrong-note lookup or write, the commit),
\* wherever in the question list, the store is after the call what it was
\* before it: no exam row, no question row, no wrong-note change of the call.
C1_AllOrNothing ==
    [][(lastExam'.submitted > lastExam.submitted /\ FaultedCall')
          => Store' = Store]_vars

\* C2: gradeAndRecord returns a summary only when the exam row, every question
\* row and every wrong-note update of the call were committed; a call in which
\* a statement failed returns the failure signal.
C2_SummaryOnlyWhenCommitted ==
    /\ (lastExam.calls = 1 /\ lastExam.ret.ok) => SummaryCommitted
    /\ FaultedCall => ~lastExam.ret.ok

\* The incorrect question rows stored for word w
IncorrectRows(w) == {q \in exam_questions : q.word_id = w /\ q.is_correct = 0}

NotesOf(w) == {r \in wrong_note : r.word_id = w}

\* The ledger agrees with the question rows: a word has a wrong-note entry
\* exactly when it has an incorrect question row, it has one entry only, and
\* the entry's wrong_count is the number of those rows.
LedgerMatchesRows ==
    \A w \in WordIds :
        /\ Cardinality(NotesOf(w)) <= 1
        /\ (IncorrectRows(w) = {}) <=> (NotesOf(w) = {})
        /\ \A r \in NotesOf(w) : r.wrong_count = Cardinality(IncorrectRows(w))

\* C10: after any sequence of successful gradeAndRecord calls (each returned
\* a summary), wrongCount[w] of every word w is the number of the stored
\* question rows of w marked incorrect: one increment per incorrect question,
\* two for a word missed twice in one exam, no entry for a word never missed.
C10_WrongCountCountsIncorrectRows == lastExam.allOk => LedgerMatchesRows

\* The same for sequences of calls in which no statement failed.
C10_FaultFreeWrongCounts == lastExam.clean => LedgerMatchesRows

\* One exam in which a word was missed twice and another word was not missed.
C10_MissedTwiceInOneExam ==
    /\ lastExam.clean
    /\ Cardinality(exam_history) = 1
    /\ \E w, u \in WordIds :
          /\ \E r \in NotesOf(w) : r.wrong_count = 2
          /\ NotesOf(u) = {}

\* The sum of wrong_count over a set of wrong-note entries
RECURSIVE TotalWrong(_)
TotalWrong(notes) ==
    IF notes = {} THEN 0
    ELSE LET r == CHOOSE x \in notes : TRUE IN r.wrong_count + TotalWrong(notes \ {r})

\* The questions of a list that are flagged correct
FlaggedCorrect(questions) == {i \in 1..Len(questions) : questions[i].is_correct = 1}

\* score, in tenths, is c/t*100 rounded to one decimal (a tie may go either way)
RoundedPercent(score, c, t) ==
    /\ 2 * (score * t - 1000 * c) <= t
    /\ 2 * (1000 * c - score * t) <= t

\* This step is a gradeAndRecord call that reports c of t correct, stores the
\* score with the exam and performs t - c wrong-note increments.
ReportsAndStoresScore ==
    LET t == lastExam'.n
        c == Cardinality(FlaggedCorrect(lastExam'.questions))
        r == lastExam'.ret
    IN  /\ r.total_questions = t
        /\ r.correct_count = c
        /\ r.wrong_count = t - c
        /\ RoundedPercent(r.score, c, t)
        /\ 0 <= r.score /\ r.score <= 1000
        /\ \E h \in exam_history' :
              h.exam_id = r.exam_id /\ h.score = r.score /\ h.total_questions = t
        /\ TotalWrong(wrong_note') - TotalWrong(wrong_note) = r.wrong_count

\* C11: every non-empty submission for which gradeAndRecord returns a summary
\* reports and stores score = c/t*100 rounded to one decimal, 0 <= score <= 100,
\* reports correctCount = c, wrongCount = t - c, totalQuestions = t, and its
\* wrongCount is the number of wrong-note increments the call performed.
C11_ScoreAndCounts ==
    [][(lastExam'.submitted > lastExam.submitted /\ lastExam'.calls = 1
          /\ lastExam'.ret.ok)
          => ReportsAndStoresScore]_vars

\* The same for calls in which no statement failed.
C11_FaultFreeScoreAndCounts ==
    [][(lastExam'.submitted > lastExam.submitted /\ lastExam'.calls = 1
          /\ lastExam'.faults = {})
          => (lastExam'.ret.ok /\ ReportsAndStoresScore)]_vars

\* Every exam has as many question rows as its stored count and every question
\* row belongs to a stored exam.
ExamsMatchQuestions ==
    /\ \A h \in exam_history :
          Cardinality({q \in exam_questions : q.exam_id = h.exam_id}) = h.total_questions
    /\ \A q \in exam_questions : \E h \in exam_history : h.exam_id = q.exam_id

\* C12: in every reachable state each ExamRecord has exactly as many
\* ExamQuestion rows as its stored question count, and every ExamQuestion row
\* references an ExamRecord that exists.
C12_QuestionRowsMatchExam == ExamsMatchQuestions

\* The same for states reached without a failing statement.
C12_FaultFreeQuestionRowsMatchExam == lastExam.clean => ExamsMatchQuestions

\* This step hands gradeAndRecord the list of the call before it.
SameListAgain ==
    lastExam'.again /\ lastExam'.calls = 1 /\ lastExam'.submitted > lastExam.submitted

\* After this step the two calls have two exams with ids of their own, each
\* with its full set of question rows, and both calls' wrong-note increments.
TwoIndependentExams ==
    LET first == lastExam.ret
        second == lastExam'.ret
    IN  /\ first.exam_id # second.exam_id
        /\ \A id \in {first.exam_id, second.exam_id} :
              /\ \E h \in exam_history' : h.exam_id = id
              /\ Cardinality({q \in exam_questions' : q.exam_id = id}) = lastExam'.n
        /\ \A i \in 1..lastExam'.n : lastExam'.questions[i].exam_id = second.exam_id
        /\ TotalWrong(wrong_note') - TotalWrong(wrong_note) = second.wrong_count
        /\ \A w \in WordIds :
              LET k == Cardinality({i \in 1..lastExam'.n :
                                      /\ lastExam'.questions[i].word_id = w
                                      /\ lastExam'.questions[i].is_correct = 0})
              IN  k > 0 => \E r \in wrong_note' : r.word_id = w /\ r.wrong_count >= 2 * k

\* C13: two successive gradeAndRecord calls with the same question list (which
\* the first call has tagged with its exam id), each returning a summary, leave
\* two separate ExamRecords with distinct ids, each with its own full set of
\* question rows tagged with its own id, and the wrong-note counts are
\* incremented by both calls.
C13_SameListTwiceTwoExams ==
    [][(SameListAgain /\ lastExam.ret.ok /\ lastExam'.ret.ok)
          => TwoIndependentExams]_vars

\* The same for two calls in which no statement failed: both succeed.
C13_FaultFreeSameListTwice ==
    [][(SameListAgain /\ lastExam.faults = {} /\ lastExam'.faults = {})
          => (lastExam.ret.ok /\ lastExam'.ret.ok /\ TwoIndependentExams)]_vars

DueWords ==
    {w \in WordIds :
        /\ \E W \in words : W.word_id = w /\ W.is_deleted = 0
        /\ \E S \in word_statistics :
              S.word_id = w /\ S.next_review.day <= DatetimeNow.day}

ReviewDateOf(w) == (CHOOSE S \in word_statistics : S.word_id = w).next_review

Returned == {result.rows[i].word_id : i \in 1..Len(result.rows)}

\* C15: selectDueWords(N) returns at most N words, never a soft-deleted word,
\* only words that have a MasteryRecord with nextReview <= end of today, in
\* ascending nextReview order, and it never omits a due word whose nextReview is
\* earlier than that of a returned word.
C15_DueWordsOldestFirst ==
    result.op = "select_review_words" =>
        /\ Len(result.rows) <= result.count[1]
        /\ Returned \subseteq DueWords
        /\ \A i \in 1..Len(result.rows) :
              result.rows[i].next_review = ReviewDateOf(result.rows[i].word_id)
        /\ \A i, j \in 1..Len(result.rows) :
              i < j => StampLeq(result.rows[i].next_review, result.rows[j].next_review)
        /\ \A w \in DueWords \ Returned : \A i \in 1..Len(result.rows) :
              StampLeq(result.rows[i].next_review, ReviewDateOf(w))

\* A query with limit 1 returned one due word and left out another one, due
\* later than the one returned.
C15_OlderOfTwoDueWords ==
    /\ result.op = "select_review_words"
    /\ ~result.failed
    /\ result.count = <<1>>
    /\ Len(result.rows) = 1
    /\ \E w \in DueWords \ Returned :
          ~StampLeq(ReviewDateOf(w), result.rows[1].next_review)

(***************************************************************************)
(* Properties of the level distribution, checked under SpecDistribution.   *)
(***************************************************************************)
RecordsAtLevel(level) == {S \in word_statistics : S.mastery_level = level}

\* C19: a getMasteryDistribution call that reads the table returns an entry for
\* every level 0..5, each the number of mastery records at that level (0 for
\* a level without records); the entries add up to the number of mastery
\* records, those of soft-deleted words included.
C19_DistributionCountsEveryRecord ==
    (result.op = "get_mastery_distribution" /\ ~result.failed) =>
        /\ DOMAIN result.dist = 0..5
        /\ \A level \in 0..5 : result.dist[level] = Cardinality(RecordsAtLevel(level))
        /\ SumOver(result.dist, 0..5) = Cardinality(word_statistics)

\* The only record of some level belongs to a soft-deleted word and is
\* counted; another level has no record.
C19_DeletedWordCounted ==
    /\ result.op = "get_mastery_distribution"
    /\ ~result.failed
    /\ \E level \in 1..5 :
          /\ result.dist[level] = 1
          /\ \A S \in RecordsAtLevel(level) :
                \E W \in words : W.word_id = S.word_id /\ W.is_deleted = 1
    /\ \E level \in 0..5 : result.dist[level] = 0

(***************************************************************************)
(* Properties of the wrong-note queries, checked under SpecReview.         *)
(***************************************************************************)
\* The non-deleted words that have a wrong-note entry
ReviewWords ==
    {w \in WordIds : NotesOf(w) # {} /\ \E W \in words : W.word_id = w /\ W.is_deleted = 0}

EntryOf(w) == CHOOSE r \in NotesOf(w) : TRUE

\* rows are the first n entries (all of them when there are fewer) of the
\* non-deleted words' wrong-note entries in the order wrongCount descending,
\* lastWrongDate ascending.
FirstOfRanked(rows, n) ==
    /\ Len(rows) = Min(n, Cardinality(ReviewWords))
    /\ \A i \in 1..Len(rows) :
          /\ rows[i].word_id \in ReviewWords
          /\ rows[i].wrong_count = EntryOf(rows[i].word_id).wrong_count
          /\ rows[i].last_wrong_date = EntryOf(rows[i].word_id).last_wrong_date
    /\ \A i, j \in 1..Len(rows) :
          i < j => /\ rows[i].word_id # rows[j].word_id
                   /\ \/ rows[i].wrong_count > rows[j].wrong_count
                      \/ /\ rows[i].wrong_count = rows[j].wrong_count
                         /\ StampLeq(rows[i].last_wrong_date, rows[j].last_wrong_date)
    /\ \A w \in ReviewWords \ {rows[i].word_id : i \in 1..Len(rows)} :
          \A i \in 1..Len(rows) :
             \/ rows[i].wrong_count > EntryOf(w).wrong_count
             \/ /\ rows[i].wrong_count = EntryOf(w).wrong_count
                /\ StampLeq(rows[i].last_wrong_date, EntryOf(w).last_wrong_date)

\* C16: a selectForReview call that reads the tables returns wrong-note entries
\* of non-deleted words only, ordered by wrongCount descending and then
\* lastWrongDate ascending; with a limit it returns the first `limit` entries
\* of that order, without a limit all of them.
C16_ReviewListRanked ==
    (result.op = "select_wrong_words_for_review" /\ ~result.failed) =>
        FirstOfRanked(result.rows,
                      IF result.count = <<>> THEN Cardinality(ReviewWords)
                      ELSE result.count[1])

\* With limit 1 and two entries of equal wrongCount the older one is returned.
C16_OlderOfEqualCounts ==
    /\ result.op = "select_wrong_words_for_review"
    /\ ~result.failed
    /\ result.count = <<1>>
    /\ Len(result.rows) = 1
    /\ \E w \in ReviewWords :
          /\ w # result.rows[1].word_id
          /\ EntryOf(w).wrong_count = result.rows[1].wrong_count
          /\ ~StampLeq(EntryOf(w).last_wrong_date, result.rows[1].last_wrong_date)

\* C17: selectExamWords in mode "wrong_note", when it reads the tables, returns
\* exactly the first min(count, available) entries of the ranked wrong-note
\* list; with fewer than count candidates the list is shorter and is not
\* filled up with other words.
C17_WrongNoteModeNoBackfill ==
    (result.op = "generate_exam_words" /\ result.mode = "wrong_note" /\ ~result.failed) =>
        /\ FirstOfRanked(result.rows, result.count[1])
        /\ Len(result.rows) <= Cardinality(ReviewWords)

\* Two words were asked for, one has a wrong-note entry, the other is a
\* non-deleted word without one: the list has one word.
C17_FewerThanAsked ==
    /\ result.op = "generate_exam_words"
    /\ result.mode = "wrong_note"
    /\ ~result.failed
    /\ result.count = <<2>>
    /\ Len(result.rows) = 1
    /\ \E W \in words : W.is_deleted = 0 /\ NotesOf(W.word_id) = {}

(***************************************************************************)
(* Properties of the random selection, checked under SpecRandom.           *)
(***************************************************************************)
\* The non-deleted words of the category asked for, or all of them
Pool ==
    {W.word_id : W \in {X \in words : /\ X.is_deleted = 0
                                      /\ result.category # "" => X.category = result.category}}

\* C18: selectExamWords in mode "random", when it reads the table, returns
\* exactly min(count, |pool|) distinct words, all of them non-deleted and of
\* the requested category when one is given; a pool smaller than count is
\* returned whole.
C18_RandomModeClamped ==
    (result.op = "generate_exam_words" /\ result.mode = "random" /\ ~result.failed) =>
        /\ Len(result.rows) = Min(result.count[1], Cardinality(Pool))
        /\ \A i \in 1..Len(result.rows) : result.rows[i].word_id \in Pool
        /\ \A i, j \in 1..Len(result.rows) :
              i # j => result.rows[i].word_id # result.rows[j].word_id

\* More words of a category were asked for than it has: the whole pool is
\* returned, without the deleted word and the word of the other category.
C18_WholePoolOfCategory ==
    /\ result.op = "generate_exam_words"
    /\ result.mode = "random"
    /\ ~result.failed
    /\ result.category # ""
    /\ result.rows # <<>>
    /\ Len(result.rows) < result.count[1]
    /\ \E W \in words : W.is_deleted = 1 \/ W.category # result.category

(***************************************************************************)
(* Properties of the word list, checked under SpecWords.                   *)
(***************************************************************************)
\* The non-deleted words that have the text
ActiveWithText(wordsT, text) == {W \in wordsT : W.is_deleted = 0 /\ W.word_text = text}

\* No two non-deleted words have the same text.
UniqueActiveTexts ==
    \A A, B \in words :
        (A # B /\ A.is_deleted = 0 /\ B.is_deleted = 0) => A.word_text # B.word_text

\* C20: in every state reachable by add, update, delete and CSV import no two
\* non-deleted words have the same text: the word list starts empty, and
\* every such operation in which no statement fails leads from a state
\* without two such words to a state without them.
C20_NoTwoActiveWordsShareText ==
    [][(UniqueActiveTexts /\ ~result'.failed) => UniqueActiveTexts']_vars

\* The second half of C20: an add or update whose duplicate check runs and
\* whose text a non-deleted (other) word has is rejected, add with 0 and update
\* with False, and writes nothing.
C20_DuplicateAddOrUpdateRejected ==
    [][/\ (result'.op = "add_word" /\ ~result'.failed
             /\ ActiveWithText(words, Strip(result'.word_text)) # {})
          => (result'.ret = 0 /\ words' = words)
       /\ (result'.op = "update_word" /\ ~result'.failed
             /\ \E W \in ActiveWithText(words, Strip(result'.word_text)) :
                   W.word_id # result'.word_id)
          => (result'.ret = FALSE /\ words' = words)]_vars

\* The same without the CSV import: add, update and delete whose duplicate
\* check runs keep the texts of the non-deleted words apart.
C20_AddUpdateDeleteKeepTextsApart ==
    [][(UniqueActiveTexts
          /\ result'.op \in {"add_word", "update_word", "delete_word"}
          /\ ~result'.failed)
          => UniqueActiveTexts']_vars

(***************************************************************************)
(* Properties of the exam view, checked under SpecView.                    *)
(***************************************************************************)
\* C9: gradeAndRecord with an empty question list returns the failure signal
\* and leaves the store as it was; the forced submission of a timed exam
\* with no answer yet is such a call.
C9_EmptySubmissionChangesNothing ==
    [][(lastExam'.calls >= 1 /\ lastExam'.n = 0)
          => (~lastExam'.ret.ok /\ Store' = Store)]_vars

\* The time limit forced an empty submission on a store that holds an exam.
C9_ForcedEmptySubmission ==
    /\ lastExam.forced
    /\ lastExam.calls >= 1
    /\ lastExam.n = 0
    /\ ~lastExam.ret.ok
    /\ exam_history # {}

(***************************************************************************)
(* Properties of the mastery tracker, checked under SpecMastery.  A step   *)
(* that raises attempts[w] is a recordOutcome call on w that succeeded;    *)
(* it was a correct outcome when it raises corrects[w] too.                *)
(***************************************************************************)
Succeeded(w) == attempts'[w] = attempts[w] + 1

\* The interval table as the specification gives it: level -> days
StatedIntervals == <<3, 7, 14, 30, 365>>

StatedInterval(level) == IF level = 0 THEN 1 ELSE StatedIntervals[level]

\* C3: a successful recordOutcome with an incorrect outcome leaves the word
\* with a record at level 0, whatever the level before and also when the word
\* had no record.
C3_IncorrectResetsLevel ==
    [][\A w \in WordIds :
          (Succeeded(w) /\ corrects'[w] = corrects[w])
             => (StatsOf(w)' # {} /\ LevelOf(w)' = 0)]_vars

\* Two correct outcomes, then an incorrect one: level 2 fell back to 0.
C3_ResetFromLevelTwo ==
    \E w \in WordIds :
        attempts[w] = 3 /\ corrects[w] = 2 /\ StatsOf(w) # {} /\ LevelOf(w) = 0

\* C4: a successful recordOutcome with a correct outcome sets the level to
\* min(prior + 1, 5), a word without a record counting as prior level 0.
C4_CorrectRaisesLevelToCap ==
    [][\A w \in WordIds :
          (Succeeded(w) /\ corrects'[w] = corrects[w] + 1)
             => (/\ StatsOf(w)' # {}
                 /\ LevelOf(w)' = IF LevelOf(w) + 1 <= 5 THEN LevelOf(w) + 1 ELSE 5)]_vars

\* Six correct outcomes in a row: the sixth found level 5 and left it at 5.
C4_SixthCorrectStaysAtFive ==
    \E w \in WordIds : attempts[w] = 6 /\ corrects[w] = 6 /\ LevelOf(w) = 5

\* C5: in every reachable state, calls with failing lookups or writes included,
\* a word has at most one mastery record and every level is in 0..5.
C5_OneRecordPerWordLevelInRange ==
    /\ \A w \in WordIds : Cardinality(StatsOf(w)) <= 1
    /\ \A r \in word_statistics : r.word_id \in WordIds /\ r.mastery_level \in 0..5

\* A lookup failed for a word that has a record while a record is at level 5.
C5_RefusedInsertAtTopLevel ==
    /\ lastOutcome = "insert_refused"
    /\ \E r \in word_statistics : r.mastery_level = 5

C7_CarriesTimeOfDay ==
    [][\A w \in WordIds :
          Succeeded(w)
             => \A r \in StatsOf(w)' :
                   r.next_review = Stamp(DatetimeNow.day + StatedInterval(r.mastery_level),
                                         DatetimeNow.tod)]_vars

\* C7, amended: the next-review instant is midnight (00:00:00) of the day that
\* lies the new level's interval after the current date, whatever the time of
\* day of the call.
C7_MidnightOfDueDay ==
    [][\A w \in WordIds :
          Succeeded(w)
             => (/\ StatsOf(w)' # {}
                 /\ \A r \in StatsOf(w)' :
                       r.next_review = Stamp(DatetimeNow.day
                                               + StatedInterval(r.mastery_level), 0))]_vars

\* A record written on day 0, where every instant is after midnight, is due at
\* midnight.
C7_WrittenAfterMidnightDueAtMidnight ==
    \E r \in word_statistics :
        r.next_review = Stamp(StatedInterval(r.mastery_level), 0)

\* C8: after n successful recordOutcome calls on a word its record has
\* total_attempts = n and correct_count = the number of correct ones, with
\* 0 <= correct_count <= total_attempts and total_attempts >= 1; a word
\* without a successful call has no record.
C8_CountersCountCalls ==
    \A w \in WordIds :
        /\ attempts[w] = 0 => StatsOf(w) = {}
        /\ attempts[w] >= 1 =>
              \E r \in StatsOf(w) :
                  /\ StatsOf(w) = {r}
                  /\ r.total_attempts = attempts[w]
                  /\ r.correct_count = corrects[w]
                  /\ 0 <= r.correct_count
                  /\ r.correct_count <= r.total_attempts
                  /\ r.total_attempts >= 1

\* A correct outcome followed by an incorrect one: 2 attempts, 1 correct, level 0.
C8_CorrectThenIncorrect ==
    \E r \in word_statistics :
        /\ r.total_attempts = 2
        /\ r.correct_count = 1
        /\ r.mastery_level = 0
        /\ attempts[r.word_id] = 2


\* No operation has run since the program was started.
Fresh ==
    /\ lastExam.calls = 0
    /\ lastEvent.op = "none"
    /\ lastOutcome = "none"
    /\ result.op = "none"

\* Any one operation of the program on a store with a wrong-note ledger.
NextLedger ==
    /\ Fresh
    /\ \/ \E qs \in QuestionLists(MaxSubmitted) : \E faults \in FaultChoices(qs) :
             GradeAndRecord(qs, faults)
       \/ \E total_words \in {0, 1} : \E writeFails \in BOOLEAN :
             StartSession(total_words, writeFails)
       \/ \E session_id \in 1..MaxSessions : \E counts \in SessionCounts :
             \E writeFails \in BOOLEAN :
                EndSession(session_id, counts[1], counts[2], writeFails)
       \/ \E w \in WordIds : \E is_correct, historyFails, lookupFails, writeFails \in BOOLEAN :
             RecordEvent(1, w, is_correct, historyFails, lookupFails, writeFails)
       \/ \E w \in WordIds : \E is_correct, lookupFails, writeFails \in BOOLEAN :
             RecordOutcome(w, is_correct, lookupFails, writeFails)
       \/ \E word_text \in Texts : \E category \in Categories : \E fault \in ExistFaults :
             \E writeFails \in BOOLEAN : AddWord(word_text, category, fault, writeFails)
       \/ \E word_id \in WordIds : \E word_text \in Texts : \E category \in Categories :
             \E fault \in ExistFaults : \E writeFails \in BOOLEAN :
                UpdateWord(word_id, word_text, category, fault, writeFails)
       \/ \E word_id \in WordIds : \E writeFails \in BOOLEAN : DeleteWord(word_id, writeFails)
       \/ \E limit \in 0..NumWords : \E fails \in BOOLEAN : SelectDueWords(limit, fails)
       \/ \E limit \in Limits : \E fails \in BOOLEAN : SelectForReview(limit, fails)
       \/ \E count \in 0..NumWords : \E mode \in {"random", "wrong_note"} :
             \E category \in {""} \cup Categories : \E fails \in BOOLEAN :
                SelectExamWords(count, mode, category, fails)
       \/ \E fault \in {"none", "connect", "select"} : GetMasteryDistribution(fault)

SpecLedger == InitLedger /\ [][NextLedger]_vars

(***************************************************************************)
(* Learning events and sessions.                                           *)
(***************************************************************************)
\* The learning_history rows of word w
EventsOf(w) == {r \in learning_history : r.word_id = w}

\* total_attempts of the record of word w in table, 0 when it has none
TotalAttempts(table, w) ==
    LET rows == {r \in table : r.word_id = w}
    IN  IF rows = {} THEN 0 ELSE FirstStats(rows).total_attempts

\* The step is a record_word_result call.
RecordEventStep == lastEvent'.op = "record_word_result" /\ lastEvent'.calls = lastEvent.calls + 1

\* C21: recordEvent attempts both of its writes on every call: whenever the
\* INSERT into learning_history is not hit by a failure its row is appended,
\* and whenever neither the lookup nor the write of update_statistics is hit by
\* a failure the attempt is counted in the word's record, each of the two
\* whatever happens to the other; a write that fails leaves its table as it
\* was; and the call returns True exactly when the history row was appended and
\* the attempt was counted.
C21_BothWritesAttempted ==
    [][RecordEventStep =>
          LET e == lastEvent'
              appended == Cardinality(learning_history') = Cardinality(learning_history) + 1
              counted == TotalAttempts(word_statistics', e.word_id)
                            = TotalAttempts(word_statistics, e.word_id) + 1
          IN  /\ "history" \notin e.faults => appended
              /\ e.faults \cap {"lookup", "write"} = {} => counted
              /\ ~appended => learning_history' = learning_history
              /\ ~counted => word_statistics' = word_statistics
              /\ e.ret = (appended /\ counted)]_vars

\* A call whose history INSERT failed has still counted the attempt, and
\* returned False.
C21_CountedAfterFailedHistory ==
    /\ lastEvent.op = "record_word_result"
    /\ lastEvent.faults = {"history"}
    /\ lastEvent.calls = 1
    /\ ~lastEvent.ret
    /\ learning_history = {}
    /\ TotalAttempts(word_statistics, lastEvent.word_id) = 1

\* C22: a session that has been finalized keeps its row: no later step changes
\* its end time, its counts or its completion flag.
C22_FinalizedSessionNeverChanges ==
    [][\A S \in learning_sessions : S.is_completed = 1 => S \in learning_sessions']_vars

\* C23: record_word_result for a word id that is in no row of words returns
\* False and leaves learning_history and word_statistics as they were.
C23_UnknownWordIsNoOp ==
    [][(RecordEventStep /\ \A W \in words : W.word_id # lastEvent'.word_id) =>
          /\ ~lastEvent'.ret
          /\ learning_history' = learning_history
          /\ word_statistics' = word_statistics]_vars

\* end_session on an id that names no session returns False and changes no row.
UnknownSessionIsNoOp ==
    [][(lastEvent'.op = "end_session"
          /\ \A S \in learning_sessions : S.session_id # lastEvent'.session_id) =>
          ~lastEvent'.ret /\ learning_sessions' = learning_sessions]_vars

\* A session starts incomplete: no end time, no counts, the flag 0.
StartsIncomplete ==
    [][\A S \in learning_sessions' \ learning_sessions :
          S \notin learning_sessions /\ (\A O \in learning_sessions : O.session_id # S.session_id)
             => S.end_time = <<>> /\ S.is_completed = 0]_vars

\* The record of word w in stats counts the rows of word w in history:
\* total_attempts all of them, correct_count those marked correct.
CountsMatch(stats, history, w) ==
    LET rows == {r \in stats : r.word_id = w}
        events == {r \in history : r.word_id = w}
        marked == {r \in events : r.is_correct = 1}
    IN  IF rows = {} THEN events = {}
        ELSE /\ FirstStats(rows).total_attempts = Cardinality(events)
             /\ FirstStats(rows).correct_count = Cardinality(marked)

\* As long as both writes of every record_word_result call have succeeded,
\* the record of every word counts its history rows.
CleanCountsMatch ==
    lastEvent.clean =>
        \A w \in WordIds : CountsMatch(word_statistics, learning_history, w)

\* A call in which exactly one of the two writes succeeds breaks the equality
\* for its word.
OneWriteBreaks ==
    (RecordEventStep /\ lastEvent'.history_success # lastEvent'.stats_success
        /\ CountsMatch(word_statistics, learning_history, lastEvent'.word_id))
    => ~CountsMatch(word_statistics', learning_history', lastEvent'.word_id)

C27_LevelIsCappedStreak ==
    \A w \in WordIds :
        IF StatsOf(w) = {} THEN streak[w] = 0
        ELSE \A r \in StatsOf(w) : r.mastery_level = Min(5, streak[w])

\* A word answered correctly, then incorrectly, then correctly twice is at
\* level 2.
C27_TwoCorrectAfterReset ==
    \E w \in WordIds :
        /\ attempts[w] = 4
        /\ corrects[w] = 3
        /\ streak[w] = 2
        /\ LevelOf(w) = 2

(***************************************************************************)
(* The review schedule, checked under SpecSchedule.                        *)
(***************************************************************************)
\* C28: a word that is not deleted and was last answered on day D, which left
\* it at level L, is returned by a due-word query that reads the tables and has
\* room for every word exactly when the day of the query is D + interval[L]
\* or later; so it is not returned on day D itself.
C28_DueFromIntervalOn ==
    (result.op = "select_review_words" /\ ~result.failed
        /\ result.count[1] >= Cardinality(words)) =>
        \A W \in words :
            (W.is_deleted = 0 /\ reviewed[W.word_id] # <<>>) =>
                /\ (W.word_id \in Returned) =
                      (DatetimeNow.day >= reviewed[W.word_id][1]
                                             + StatedInterval(LevelOf(W.word_id)))
                /\ DatetimeNow.day = reviewed[W.word_id][1] => W.word_id \notin Returned

\* On the same day a word at level 2 is returned, seven days after its last
\* answer, and a word at level 3 is not.
C28_LevelTwoDueLevelThreeNot ==
    /\ result.op = "select_review_words"
    /\ ~result.failed
    /\ DatetimeNow.day = 7
    /\ \E w \in Returned : LevelOf(w) = 2 /\ reviewed[w] = <<0>>
    /\ \E w \in WordIds \ Returned :
          LevelOf(w) = 3 /\ reviewed[w] = <<0>> /\ \E W \in words : W.word_id = w /\ W.is_deleted = 0

(***************************************************************************)
(* Calls of update_statistics side by side, checked under SpecRace.        *)
(***************************************************************************)
\* The callers that have finished a call for word w
DoneOn(w) == {c \in Callers : callers[c].pc = "done" /\ callers[c].word_id = w}

\* total_attempts in the rows a caller has looked up, 0 when it found none
LookedUpTotal(c) ==
    IF callers[c].current_stats = {} THEN 0
    ELSE FirstStats(callers[c].current_stats).total_attempts

\* C26: when two or more calls for one word have all looked up before any of
\* them wrote, so that all of them found the same rows, the word's record ends
\* with total_attempts one above what they found, however many of them there
\* are: every update but one is lost.  When they found no record, all of them
\* took the insert branch and one of them alone returned True.
C26_LostUpdate ==
    \A w \in WordIds :
        (/\ Cardinality(DoneOn(w)) >= 2
         /\ \A c, d \in DoneOn(w) : callers[c].current_stats = callers[d].current_stats) =>
            \A c \in DoneOn(w) :
                /\ TotalAttempts(word_statistics, w) = LookedUpTotal(c) + 1
                /\ Cardinality(StatsOf(w)) = 1
                /\ callers[c].current_stats = {} =>
                       Cardinality({d \in DoneOn(w) : callers[d].ret}) = 1

\* Two calls for a word with one attempt on record have both returned True,
\* and the record counts two attempts.
C26_TwoUpdatesOneCounted ==
    \E w \in WordIds :
        /\ Cardinality(DoneOn(w)) = 2
        /\ \A c \in DoneOn(w) : callers[c].ret /\ LookedUpTotal(c) = 1
        /\ attempts[w] = 3
        /\ TotalAttempts(word_statistics, w) = 2

(***************************************************************************)
(* The exam view's runs, checked under SpecView.                           *)
(***************************************************************************)
\* C25: the step that ends an exam run, by the final answer or by the time
\* limit, calls submit_and_record_exam at most once and adds at most one row
\* to exam_history; stated for the runs in which no statement has failed.
C25_OneGradingPerRun ==
    [][(lastExam' # lastExam /\ lastExam'.clean) =>
          /\ lastExam'.calls <= 1
          /\ Cardinality(exam_history' \ exam_history) <= 1]_vars

\* One expiry of the time limit, with no failure anywhere, has added two rows
\* to exam_history for the one run.
TwoRecordsForOneRun ==
    /\ lastExam.clean
    /\ lastExam.forced
    /\ lastExam.calls = 2
    /\ lastExam.submitted = 2
    /\ Cardinality(exam_history) = 2

(***************************************************************************)
(* Soft deletion, checked under SpecDelete.                                *)
(***************************************************************************)
\* The step is a delete_word call that returned True.
DeleteStep == result'.op = "delete_word" /\ result'.ret = TRUE

\* The rows of every table but words are what they were.
OtherTablesKept ==
    /\ word_statistics' = word_statistics
    /\ wrong_note' = wrong_note
    /\ exam_history' = exam_history
    /\ exam_questions' = exam_questions
    /\ learning_history' = learning_history
    /\ learning_sessions' = learning_sessions

\* A word that is deleted stays deleted.
StaysDeleted ==
    \A W \in words : W.is_deleted = 1 =>
        \A V \in words' : V.word_id = W.word_id => V.is_deleted = 1

\* No selection returns a word that is deleted.
NoDeletedWordSelected ==
    result.op \in {"select_review_words", "select_wrong_words_for_review",
                   "generate_exam_words"} =>
        \A W \in words : W.is_deleted = 1 => W.word_id \notin Returned

\* C30 as stated: a delete changes nothing but the flag of the word's row; a
\* deleted word stays deleted, and no selection returns it.
C30_OnlyTheFlagChanges ==
    /\ [][DeleteStep =>
             /\ words' = {IF W.word_id = result'.word_id THEN [W EXCEPT !.is_deleted = 1]
                           ELSE W : W \in words}
             /\ OtherTablesKept]_vars
    /\ [][StaysDeleted]_vars
    /\ []NoDeletedWordSelected

\* C30, amended: a delete sets the flag and the modification date of the
\* word's row and changes nothing else; a deleted word stays deleted, and no
\* selection returns it.
C30_FlagAndModifiedDateChange ==
    /\ [][DeleteStep =>
             /\ words' = {IF W.word_id = result'.word_id
                           THEN [W EXCEPT !.is_deleted = 1,
                                          !.modified_date = FormatFull(DatetimeNow)]
                           ELSE W : W \in words}
             /\ OtherTablesKept]_vars
    /\ [][StaysDeleted]_vars
    /\ []NoDeletedWordSelected

\* A due-word query has returned a word and left out a deleted one that is due
\* and has been updated since it was deleted.
C30_DeletedDueWordLeftOut ==
    /\ result.op = "select_review_words"
    /\ ~result.failed
    /\ Returned # {}
    /\ \E W \in words :
          /\ W.is_deleted = 1
          /\ W.category = "B"
          /\ \E S \in word_statistics :
                S.word_id = W.word_id /\ S.next_review.day <= DatetimeNow.day
          /\ W.word_id \notin Returned

(***************************************************************************)
(* The wrong-note ledger under every operation, checked under SpecLedger.  *)
(***************************************************************************)
\* C24: a step that is not a gradeAndRecord call leaves wrong_note as it was,
\* and no step at all removes an entry or lowers its wrong_count.
C24_LedgerChangesOnlyInGrading ==
    [][/\ lastExam' = lastExam => wrong_note' = wrong_note
       /\ \A N \in wrong_note :
             \E M \in wrong_note' :
                M.word_id = N.word_id /\ M.wrong_count >= N.wrong_count]_vars

\* An incorrect flashcard answer to a word with a wrong-note entry has been
\* recorded, and the entry still counts the word's incorrect exam answers.
C24_IncorrectFlashcardNotCounted ==
    /\ lastEvent.op = "record_word_result"
    /\ lastEvent.ret
    /\ ~lastEvent.is_correct
    /\ TotalAttempts(word_statistics, lastEvent.word_id) = 1
    /\ \E N \in wrong_note :
          /\ N.word_id = lastEvent.word_id
          /\ N.wrong_count = MaxWrong
          /\ N.wrong_count = Cardinality(IncorrectRows(N.word_id))
=============================================================================
